---- MODULE Spec2Model ----
(***************************************************************************)
(* Session store of claude-code-monitor (src/store/file-store.ts) and the  *)
(* hook handler that drives it (src/hook/handler.ts).                      *)
(*                                                                         *)
(* A store is a JSON file plus, per OS process, an in-memory cache and a   *)
(* debounce timer.  Every exported store function is synchronous, so it is *)
(* one atomic action of the process that calls it; processes interleave    *)
(* only between such calls, i.e. at the file.                              *)
(***************************************************************************)
EXTENDS Integers, Sequences, FiniteSets, TLC

(***************************************************************************)
(* Bounds of the model                                                     *)
(***************************************************************************)
MaxClock == 1        \* the clock (new Date()) takes the values 0..MaxClock
MaxBatch == 2        \* longest scan batch handed to syncProcessSessions
MaxSessions == 2     \* a call that would leave more records than this is not made
MaxBurst == 3        \* most writeStore calls between two flushes
MaxMessages == 2     \* most messages a WebSocket client sends, and most it is sent
MaxEffects == 3      \* most runs of the effect of useServer (mount and port changes)

(***************************************************************************)
(* Values                                                                  *)
(***************************************************************************)
Undefined == "undefined"                 \* JS undefined of an optional field
Ttys == {"/dev/t1", "/dev/t2"}
\* session_id is any non-empty string (handler.ts isNonEmptyString); the
\* third id contains the separator used by getSessionKey.
HookIds == {"a", "a:/dev/t1"}
Pids == {1, 2}
Cwds == {"/tmp"}
Messages == {"m1"}
HookEventNames == {"PreToolUse", "PostToolUse", "Notification", "Stop", "UserPromptSubmit"}
NotificationTypes == {Undefined, "permission_prompt", "idle_prompt"}
Statuses == {"running", "waiting_input", "stopped"}
Procs == {"w", "h1", "h2"}               \* "w": long-lived process; h1, h2: hook processes
HookProcs == {"h1", "h2"}

VARIABLES
    file,         \* sessions.json: <<>> when missing, else <<StoreData>>
    cachedStore,  \* per process: <<>> (null) or <<StoreData>>
    writeTimer,   \* per process: the writeTimer handle is non-null
    timers,       \* per process: number of scheduled flushWrite timeouts not yet fired or cleared
    now,          \* the wall clock
    last,         \* the last call made (observation only)
    burst,        \* per process: writeStore calls since its cache was last flushed or dropped (observation only)
    pc,           \* per hook process: where handleHookEvent is
    ev,           \* per hook process: <<>> or <<the event it handles>>
    clients,      \* per WebSocket connection of the server: its socket
    watch,        \* the file watcher: a change event is queued; the TTYs that exist
    hook          \* the useServer hook of the TUI: its effects and its React state

vars == <<file, cachedStore, writeTimer, timers, now, last, burst, pc, ev, clients, watch, hook>>

(***************************************************************************)
(* Record<string, Session>: a JS object keeps its keys in insertion order, *)
(* so it is a sequence of entries [key, val] without duplicate keys.       *)
(***************************************************************************)
Keys(sessions) == {sessions[i].key : i \in 1..Len(sessions)}

Has(sessions, k) == k \in Keys(sessions)

IndexOf(sessions, k) == CHOOSE i \in 1..Len(sessions) : sessions[i].key = k

Get(sessions, k) == sessions[IndexOf(sessions, k)].val

Values(sessions) == [i \in 1..Len(sessions) |-> sessions[i].val]

\* sessions[k] = v: an existing key keeps its position, a new key goes last
Put(sessions, k, v) ==
    IF Has(sessions, k)
    THEN [sessions EXCEPT ![IndexOf(sessions, k)] = [key |-> k, val |-> v]]
    ELSE Append(sessions, [key |-> k, val |-> v])

RECURSIVE Filter(_, _)
\* the entries whose index is in keep, in order
Filter(sessions, keep) ==
    IF sessions = <<>> THEN <<>>
    ELSE LET n == Len(sessions)
             front == Filter(SubSeq(sessions, 1, n - 1), keep)
         IN IF n \in keep THEN Append(front, sessions[n]) ELSE front

\* delete sessions[k]
Del(sessions, k) == Filter(sessions, {i \in 1..Len(sessions) : sessions[i].key # k})

(***************************************************************************)
(* Pure functions of file-store.ts                                         *)
(***************************************************************************)
getEmptyStoreData(t) == [sessions |-> <<>>, updated_at |-> t]

\* tty ? `${sessionId}:${tty}` : sessionId
getSessionKey(sessionId, tty) ==
    IF tty # Undefined THEN sessionId \o ":" \o tty ELSE sessionId

\* deletes every record of another session id, whatever its tty
removeOldSessionsOnSameTty_anyTty(sessions, newSessionId, tty) ==
    Filter(sessions, {i \in 1..Len(sessions) :
        ~(sessions[i].val.session_id # newSessionId)})

removeOldSessionsOnSameTty(sessions, newSessionId, tty) ==
    Filter(sessions, {i \in 1..Len(sessions) :
        ~(sessions[i].val.tty = tty /\ sessions[i].val.session_id # newSessionId)})

determineStatus_anyNotification(event, currentStatus) ==
    IF event.hook_event_name = "Stop" THEN "stopped"
    ELSE IF event.hook_event_name = "UserPromptSubmit" THEN "running"
    ELSE IF currentStatus = "stopped" THEN "stopped"
    ELSE IF event.hook_event_name = "PreToolUse" THEN "running"
    ELSE IF event.hook_event_name = "Notification"
            /\ event.notification_type # Undefined THEN "waiting_input"
    ELSE "running"

determineStatus_notSticky(event, currentStatus) ==
    IF event.hook_event_name = "Stop" THEN "stopped"
    ELSE IF event.hook_event_name = "UserPromptSubmit" THEN "running"
    ELSE IF event.hook_event_name = "PreToolUse" THEN "running"
    ELSE IF currentStatus = "stopped" THEN "stopped"
    ELSE IF event.hook_event_name = "Notification"
            /\ event.notification_type = "permission_prompt" THEN "waiting_input"
    ELSE "running"

determineStatus(event, currentStatus) ==
    IF event.hook_event_name = "Stop" THEN "stopped"
    ELSE IF event.hook_event_name = "UserPromptSubmit" THEN "running"
    ELSE IF currentStatus = "stopped" THEN "stopped"
    ELSE IF event.hook_event_name = "PreToolUse" THEN "running"
    ELSE IF event.hook_event_name = "Notification"
            /\ event.notification_type = "permission_prompt" THEN "waiting_input"
    ELSE "running"

\* `codex-${proc.pid}`
codexSessionId(pid) == "codex-" \o ToString(pid)

NaN == -1
\* Number.parseInt(session_id.replace('codex-', ''), 10)
parsePid(session_id) ==
    IF \E n \in Pids : session_id = codexSessionId(n)
    THEN CHOOSE n \in Pids : session_id = codexSessionId(n)
    ELSE NaN

(***************************************************************************)
(* The module state of one process together with the file, as a record m:  *)
(*   file         <<>> when sessions.json is missing, else <<StoreData>>   *)
(*   cachedStore  <<>> (null) or <<StoreData>>                             *)
(*   writeTimer   the handle is non-null                                   *)
(*   timers       scheduled flushWrite timeouts not yet fired or cleared   *)
(*   io           how the file system answers during this call (IoOutcomes) *)
(* Each function below maps m (and the clock t) to the m it leaves.        *)
(***************************************************************************)
\* How the file system answers the calls one store function makes:
\*   "ok"     every call succeeds
\*   "mkdir"  STORE_DIR is missing and mkdirSync throws
\*   "read"   readFileSync throws
\*   "open"   writeFileSync throws before it has opened the file
\*   "write"  writeFileSync throws after it has opened (truncated) the file
IoOutcomes == {"ok", "mkdir", "read", "open", "write"}

\* the content of a file that was opened for writing and not written to the
\* end: empty or a prefix of the JSON text
Torn == [torn |-> TRUE]

\* JSON.parse(content) returns instead of throwing
parses(content) == content # Torn

\* ensureStoreDir() is called outside readStore's try block
readStoreThrows(m) == m.cachedStore = <<>> /\ m.io = "mkdir"

\* what readStore returns when it returns; a missing file, a failed read and
\* a failed parse give the empty aggregate
readStore(m, t) ==
    IF m.cachedStore # <<>> THEN m.cachedStore[1]
    ELSE IF m.file = <<>> THEN getEmptyStoreData(t)
    ELSE IF m.io = "read" \/ ~parses(m.file[1]) THEN getEmptyStoreData(t)
    ELSE m.file[1]

\* the file after writeFileSync(STORE_FILE, content) preceded by ensureStoreDir()
writeFileSync(m, content) ==
    IF m.io \in {"mkdir", "open"} THEN m.file
    ELSE IF m.io = "write" THEN <<Torn>>
    ELSE <<content>>

\* writes the file and drops the handle, but keeps the cache
flushWrite_keepsCache(m, t) ==
    IF m.cachedStore # <<>>
    THEN [m EXCEPT !.file = writeFileSync(m, [m.cachedStore[1] EXCEPT !.updated_at = t]),
                   !.writeTimer = FALSE]
    ELSE [m EXCEPT !.writeTimer = FALSE]

flushWrite(m, t) ==
    IF m.cachedStore # <<>>
    THEN [m EXCEPT !.file = writeFileSync(m, [m.cachedStore[1] EXCEPT !.updated_at = t]),
                   !.cachedStore = <<>>,
                   !.writeTimer = FALSE]
    ELSE [m EXCEPT !.writeTimer = FALSE]

\* clearTimeout(writeTimer) when the handle is set
clearTimeout(m) == IF m.writeTimer THEN m.timers - 1 ELSE m.timers

writeStore_noClearTimeout(m, data) ==
    [m EXCEPT !.cachedStore = <<data>>,
              !.timers = m.timers + 1,
              !.writeTimer = TRUE]

writeStore_noSetTimeout(m, data) ==
    [m EXCEPT !.cachedStore = <<data>>,
              !.timers = clearTimeout(m),
              !.writeTimer = FALSE]

writeStore(m, data) ==
    [m EXCEPT !.cachedStore = <<data>>,
              !.timers = clearTimeout(m) + 1,
              !.writeTimer = TRUE]

flushPendingWrites_noFlush(m, t) ==
    IF m.writeTimer
    THEN [m EXCEPT !.timers = clearTimeout(m), !.writeTimer = FALSE]
    ELSE m

flushPendingWrites(m, t) ==
    IF m.writeTimer
    THEN flushWrite([m EXCEPT !.timers = clearTimeout(m)], t)
    ELSE m

resetStoreCache_flushes(m) ==
    [m EXCEPT !.file = IF m.cachedStore # <<>> THEN <<m.cachedStore[1]>> ELSE m.file,
              !.timers = clearTimeout(m),
              !.writeTimer = FALSE,
              !.cachedStore = <<>>]

resetStoreCache(m) ==
    [m EXCEPT !.timers = clearTimeout(m),
              !.writeTimer = FALSE,
              !.cachedStore = <<>>]

\* the event loop runs a scheduled flushWrite timeout
timeoutFires(m, t) == flushWrite([m EXCEPT !.timers = m.timers - 1], t)

(***************************************************************************)
(* updateSession                                                           *)
(***************************************************************************)
HookEvents ==
    [session_id : HookIds, cwd : Cwds, tty : Ttys \cup {Undefined},
     hook_event_name : HookEventNames, notification_type : NotificationTypes]

\* the map after the supersession step of updateSession
afterEviction(sessions, event) ==
    IF event.tty # Undefined
    THEN removeOldSessionsOnSameTty(sessions, event.session_id, event.tty)
    ELSE sessions

\* store.sessions[key], read after the supersession step: <<>> or <<Session>>
existingSession(sessions, event) ==
    LET s1 == afterEviction(sessions, event)
        key == getSessionKey(event.session_id, event.tty)
    IN IF Has(s1, key) THEN <<Get(s1, key)>> ELSE <<>>

sessionFrom_keepsSource(existing, event, assistantMessage, t) ==
    [session_id |-> event.session_id,
     cwd |-> event.cwd,
     tty |-> IF event.tty # Undefined THEN event.tty
             ELSE IF existing # <<>> THEN existing[1].tty ELSE Undefined,
     status |-> determineStatus(event,
                  IF existing # <<>> THEN existing[1].status ELSE Undefined),
     created_at |-> IF existing # <<>> THEN existing[1].created_at ELSE t,
     updated_at |-> t,
     lastMessage |-> IF assistantMessage # Undefined THEN assistantMessage
                     ELSE IF existing # <<>> THEN existing[1].lastMessage ELSE Undefined,
     source |-> IF existing # <<>> THEN existing[1].source ELSE Undefined]

sessionFrom_createdNow(existing, event, assistantMessage, t) ==
    [session_id |-> event.session_id,
     cwd |-> event.cwd,
     tty |-> IF event.tty # Undefined THEN event.tty
             ELSE IF existing # <<>> THEN existing[1].tty ELSE Undefined,
     status |-> determineStatus(event,
                  IF existing # <<>> THEN existing[1].status ELSE Undefined),
     created_at |-> t,
     updated_at |-> t,
     lastMessage |-> IF assistantMessage # Undefined THEN assistantMessage
                     ELSE IF existing # <<>> THEN existing[1].lastMessage ELSE Undefined,
     source |-> Undefined]

\* the Session object updateSession builds and returns; assistantMessage is
\* what getLastAssistantMessage(event.transcript_path) returned
\* existing is store.sessions[key]: <<>> or <<Session>>
sessionFrom(existing, event, assistantMessage, t) ==
    [session_id |-> event.session_id,
     cwd |-> event.cwd,
     tty |-> IF event.tty # Undefined THEN event.tty
             ELSE IF existing # <<>> THEN existing[1].tty ELSE Undefined,
     status |-> determineStatus(event,
                  IF existing # <<>> THEN existing[1].status ELSE Undefined),
     created_at |-> IF existing # <<>> THEN existing[1].created_at ELSE t,
     updated_at |-> t,
     lastMessage |-> IF assistantMessage # Undefined THEN assistantMessage
                     ELSE IF existing # <<>> THEN existing[1].lastMessage ELSE Undefined,
     source |-> Undefined]

newSession(sessions, event, assistantMessage, t) ==
    sessionFrom(existingSession(sessions, event), event, assistantMessage, t)

updateSession(m, event, assistantMessage, t) ==
    LET store == readStore(m, t)
        key == getSessionKey(event.session_id, event.tty)
        session == newSession(store.sessions, event, assistantMessage, t)
    IN writeStore(m, [store EXCEPT
           !.sessions = Put(afterEviction(store.sessions, event), key, session)])

(***************************************************************************)
(* syncProcessSessions                                                     *)
(***************************************************************************)
DetectedProcesses == [pid : Pids, tty : Ttys, cwd : Cwds, source : {"codex"}]

Batches == UNION {[1..n -> DetectedProcesses] : n \in 0..MaxBatch}

\* without the supersession step
upsertProcess_noEviction(sessions, proc, t) ==
    LET sessionId == codexSessionId(proc.pid)
        key == getSessionKey(sessionId, proc.tty)
    IN Put(sessions, key,
           [session_id |-> sessionId,
            cwd |-> proc.cwd,
            tty |-> proc.tty,
            status |-> "running",
            created_at |-> IF Has(sessions, key) THEN Get(sessions, key).created_at ELSE t,
            updated_at |-> t,
            lastMessage |-> Undefined,
            source |-> proc.source])

\* one iteration of the loop over detected
upsertProcess(sessions, proc, t) ==
    LET sessionId == codexSessionId(proc.pid)
        key == getSessionKey(sessionId, proc.tty)
        s1 == removeOldSessionsOnSameTty(sessions, sessionId, proc.tty)
    IN Put(s1, key,
           [session_id |-> sessionId,
            cwd |-> proc.cwd,
            tty |-> proc.tty,
            status |-> "running",
            created_at |-> IF Has(s1, key) THEN Get(s1, key).created_at ELSE t,
            updated_at |-> t,
            lastMessage |-> Undefined,
            source |-> proc.source])

RECURSIVE upsertAll(_, _, _)
upsertAll(sessions, detected, t) ==
    IF detected = <<>> THEN sessions
    ELSE upsertAll(upsertProcess(sessions, Head(detected), t), Tail(detected), t)

detectedPids(detected) == {detected[i].pid : i \in 1..Len(detected)}

sweepCodex_markStopped(sessions, detected) ==
    [i \in 1..Len(sessions) |->
        IF sessions[i].val.source = "codex"
           /\ parsePid(sessions[i].val.session_id) \notin detectedPids(detected)
        THEN [sessions[i] EXCEPT !.val.status = "stopped"]
        ELSE sessions[i]]

sweepCodex_anySource(sessions, detected) ==
    Filter(sessions, {i \in 1..Len(sessions) :
        parsePid(sessions[i].val.session_id) \in detectedPids(detected)})

\* the second loop: remove Codex sessions whose process is no longer running
sweepCodex(sessions, detected) ==
    Filter(sessions, {i \in 1..Len(sessions) :
        \/ sessions[i].val.source # "codex"
        \/ parsePid(sessions[i].val.session_id) \in detectedPids(detected)})

\* the map syncProcessSessions writes
syncedSessions(sessions, detected, t) ==
    sweepCodex(upsertAll(sessions, detected, t), detected)

syncProcessSessions(m, detected, t) ==
    LET store == readStore(m, t)
    IN writeStore(m, [store EXCEPT !.sessions = syncedSessions(store.sessions, detected, t)])

(***************************************************************************)
(* scanForCodexProcesses                                                   *)
(***************************************************************************)
\* the args column of a ps line: the Codex CLI, a file named codex below a
\* directory of the monitor, another program
PsArgs == {"codex", "/opt/ccm/bin/codex", "vim"}

\* the tty column of a ps line
PsTtys == {"t1", "t2", "??"}

\* the lines of programs other than the Codex CLI are on one terminal
PsRows ==
    {r \in [pid : Pids, tty : PsTtys, args : PsArgs] : r.args = "codex" \/ r.tty = "t1"}

\* what execSync('ps -eo pid,tty,args') gives: it throws (exit code, timeout),
\* or it returns lines, one per process, in the order of the pids
PsResults ==
    {[failed |-> TRUE, rows |-> <<>>]} \cup
    {[failed |-> FALSE, rows |-> rows] :
        rows \in {r \in UNION {[1..n -> PsRows] : n \in 0..MaxBatch} :
                    \A i, j \in 1..Len(r) : i < j => r[i].pid < r[j].pid}}

\* what lsof answers for each pid: its cwd, or Undefined when execSync throws
\* or the output has no n line
LsofResults == [Pids -> Cwds \cup {Undefined}]

isCodexProcess(args) == args \in {"codex", "/opt/ccm/bin/codex"}

\* args.includes('claude-code-monitor') || args.includes('ccm')
includesMonitorName(args) == args = "/opt/ccm/bin/codex"

normalizeTty(tty) == IF tty \in Ttys THEN tty ELSE "/dev/" \o tty

getProcessCwd(pid, lsof) == lsof[pid]

RECURSIVE scanLines_keepsWithoutCwd(_, _)
scanLines_keepsWithoutCwd(rows, lsof) ==
    IF rows = <<>> THEN <<>>
    ELSE LET row == Head(rows)
             rest == scanLines_keepsWithoutCwd(Tail(rows), lsof)
         IN IF \/ ~isCodexProcess(row.args)
               \/ includesMonitorName(row.args)
               \/ row.tty = "??"
            THEN rest
            ELSE <<[pid |-> row.pid, tty |-> normalizeTty(row.tty),
                    cwd |-> getProcessCwd(row.pid, lsof), source |-> "codex"]>> \o rest

RECURSIVE scanLines(_, _)
\* the loop over the lines of the ps output
scanLines(rows, lsof) ==
    IF rows = <<>> THEN <<>>
    ELSE LET row == Head(rows)
             rest == scanLines(Tail(rows), lsof)
         IN IF \/ ~isCodexProcess(row.args)
               \/ includesMonitorName(row.args)
               \/ row.tty = "??"
               \/ getProcessCwd(row.pid, lsof) = Undefined
            THEN rest
            ELSE <<[pid |-> row.pid, tty |-> normalizeTty(row.tty),
                    cwd |-> getProcessCwd(row.pid, lsof), source |-> "codex"]>> \o rest

\* lets the exception of execSync('ps ...') out
scanForCodexProcesses_psUnguarded(ps, lsof) ==
    [threw |-> ps.failed, results |-> scanLines(ps.rows, lsof)]

\* whether the call throws, and the array it returns when it does not
scanForCodexProcesses(ps, lsof) ==
    [threw |-> FALSE,
     results |-> IF ps.failed THEN <<>> ELSE scanLines(ps.rows, lsof)]

(***************************************************************************)
(* getSessions, removeSession, clearSessions                               *)
(***************************************************************************)
\* utils/tty-cache.ts: a session without a TTY is alive; otherwise the OS
\* answers, alive being the set of TTYs it reports as existing
isTtyAlive(tty, alive) == tty = Undefined \/ tty \in alive

pruneDeadTtys(sessions, alive) ==
    Filter(sessions, {i \in 1..Len(sessions) : isTtyAlive(sessions[i].val.tty, alive)})

RECURSIVE sortByCreatedAt_unstable(_)
sortByCreatedAt_unstable(list) ==
    IF list = <<>> THEN <<>>
    ELSE LET n == Len(list)
             front == sortByCreatedAt_unstable(SubSeq(list, 1, n - 1))
             x == list[n]
             k == Cardinality({i \in 1..Len(front) : front[i].created_at < x.created_at})
         IN SubSeq(front, 1, k) \o <<x>> \o SubSeq(front, k + 1, Len(front))

RECURSIVE sortByCreatedAt(_)
\* Array.prototype.sort with the created_at comparator: stable
sortByCreatedAt(list) ==
    IF list = <<>> THEN <<>>
    ELSE LET n == Len(list)
             front == sortByCreatedAt(SubSeq(list, 1, n - 1))
             x == list[n]
             k == Cardinality({i \in 1..Len(front) : front[i].created_at <= x.created_at})
         IN SubSeq(front, 1, k) \o <<x>> \o SubSeq(front, k + 1, Len(front))

\* what getSessions returns (before tab-name enrichment)
getSessionsResult(m, alive, t) ==
    sortByCreatedAt(Values(pruneDeadTtys(readStore(m, t).sessions, alive)))

getSessions_noWrite(m, alive, t) == m

\* persists the map whether it pruned or not
getSessions_alwaysWrites(m, alive, t) ==
    LET store == readStore(m, t)
    IN writeStore(m, [store EXCEPT !.sessions = pruneDeadTtys(store.sessions, alive)])

getSessions(m, alive, t) ==
    LET store == readStore(m, t)
        pruned == pruneDeadTtys(store.sessions, alive)
    IN IF pruned # store.sessions
       THEN writeStore(m, [store EXCEPT !.sessions = pruned])
       ELSE m

\* utils/tab-name.ts: the tab's name, or Undefined when no terminal
\* application reports one; tabNames is what the applications answer
getTabName(tty, tabNames) == tabNames[tty]

\* { ...session, tabName }
withTabName(session, tabName) == [tabName |-> tabName] @@ session

\* sets tabName on the session object it was given
enrichSessionsWithTabNames_inPlace(sessions, tabNames) ==
    [i \in 1..Len(sessions) |->
        IF sessions[i].tty = Undefined \/ getTabName(sessions[i].tty, tabNames) = Undefined
        THEN [returned |-> sessions[i], input |-> sessions[i], same |-> TRUE]
        ELSE [returned |-> withTabName(sessions[i], getTabName(sessions[i].tty, tabNames)),
              input |-> withTabName(sessions[i], getTabName(sessions[i].tty, tabNames)),
              same |-> TRUE]]

\* for each session object of the array: the object returned for it, the
\* input object as the call leaves it, and whether the two are one object
enrichSessionsWithTabNames(sessions, tabNames) ==
    [i \in 1..Len(sessions) |->
        IF sessions[i].tty = Undefined \/ getTabName(sessions[i].tty, tabNames) = Undefined
        THEN [returned |-> sessions[i], input |-> sessions[i], same |-> TRUE]
        ELSE [returned |-> withTabName(sessions[i], getTabName(sessions[i].tty, tabNames)),
              input |-> sessions[i],
              same |-> FALSE]]

\* the objects of the array getSessions returns, each with the key of the
\* store's object it was made from
getSessionsObjects(m, alive, tabNames, t) ==
    LET pruned == pruneDeadTtys(readStore(m, t).sessions, alive)
        order == sortByCreatedAt([i \in 1..Len(pruned) |->
                                     [created_at |-> pruned[i].val.created_at,
                                      key |-> pruned[i].key]])
        enriched == enrichSessionsWithTabNames(
                        [i \in 1..Len(order) |-> Get(pruned, order[i].key)], tabNames)
    IN [i \in 1..Len(order) |->
           [key |-> order[i].key,
            session |-> enriched[i].returned,
            input |-> enriched[i].input,
            same |-> enriched[i].same]]

removeSession(m, sessionId, tty, t) ==
    LET store == readStore(m, t)
    IN writeStore(m, [store EXCEPT !.sessions = Del(@, getSessionKey(sessionId, tty))])

clearSessions_flushesFirst(m, t) ==
    writeStore(flushPendingWrites(m, t), getEmptyStoreData(t))

clearSessions(m, t) == writeStore(m, getEmptyStoreData(t))

\* handler.ts: updateSession(event); flushPendingWrites()
handleHookEvent(m, event, assistantMessage, t) ==
    flushPendingWrites(updateSession(m, event, assistantMessage, t), t)

(***************************************************************************)
(* The hook command: ccm hook <event>, with the hook's JSON on stdin       *)
(***************************************************************************)
\* a value of the parsed JSON object, by its typeof
JUndefined == [t |-> "undefined"]
JNumber == [t |-> "number"]
JString(str) == [t |-> "string", s |-> str]

\* the <event> argument: the five names of VALID_HOOK_EVENTS and one other
EventNameArgs == HookEventNames \cup {"SessionStart"}

\* what stdin holds: a text JSON.parse rejects, the JSON text null, or an object
Stdins ==
    {[kind |-> "malformed"], [kind |-> "null"]} \cup
    [kind : {"object"},
     session_id : {JUndefined, JNumber, JString(""), JString("a")},
     cwd : {JUndefined, JNumber, JString("/tmp")},
     notification_type : {JUndefined, JNumber, JString("permission_prompt")}]

\* process.cwd()
ProcessCwd == "/home"

isValidHookEventName(name) == name \in HookEventNames

isNonEmptyString_anyString(value) == value.t = "string"

isNonEmptyString(value) == value.t = "string" /\ value.s # ""

\* the exit status handleHookEvent ends the process with before it builds the
\* event, 0 when it goes on; reading a property of null throws a TypeError,
\* which the hook command catches and turns into exit status 1
validateHookInput(eventName, stdin) ==
    IF ~isValidHookEventName(eventName) THEN 1
    ELSE IF stdin.kind = "malformed" THEN 1
    ELSE IF stdin.kind = "null" THEN 1
    ELSE IF ~isNonEmptyString(stdin.session_id) THEN 1
    ELSE IF stdin.cwd.t # "undefined" /\ stdin.cwd.t # "string" THEN 1
    ELSE IF stdin.notification_type.t # "undefined"
            /\ stdin.notification_type.t # "string" THEN 1
    ELSE 0

\* the HookEvent built from the validated input
buildHookEvent(eventName, tty, stdin) ==
    [session_id |-> stdin.session_id.s,
     cwd |-> IF stdin.cwd.t = "string" /\ stdin.cwd.s # "" THEN stdin.cwd.s ELSE ProcessCwd,
     tty |-> tty,
     hook_event_name |-> eventName,
     notification_type |-> IF stdin.notification_type.t = "string"
                           THEN stdin.notification_type.s ELSE Undefined]

\* the whole of handleHookEvent(eventName, tty)
hookCommand(m, eventName, tty, stdin, t) ==
    IF validateHookInput(eventName, stdin) # 0 THEN m
    ELSE handleHookEvent(m, buildHookEvent(eventName, tty, stdin), Undefined, t)

(***************************************************************************)
(* server/index.ts: WebSocket connections                                  *)
(***************************************************************************)
Conns == {"c1", "c2"}

Null == "null"

\* the token the server generated at start
ValidToken == "good"

\* url.searchParams.get('token') of a connection request
RequestTokens == {Null, "bad", ValidToken}

\* the commands handleWebSocketMessage knows
MessageTypes == {"focus", "sendText", "sendKeystroke", "clearSessions"}

\* a connection that was not made yet
NoClient ==
    [token |-> Null, readyState |-> "NONE", onMessage |-> FALSE, received |-> 0, commands |-> 0]

\* admits every connection
onConnection_noTokenCheck(client, requestToken) ==
    [client EXCEPT !.token = requestToken,
                   !.readyState = "OPEN",
                   !.received = @ + 1,
                   !.onMessage = TRUE]

\* the 'connection' handler: ws.close(1008) puts the socket in CLOSING and
\* the handler returns; otherwise the socket, which is OPEN, is sent the
\* sessions and gets its 'message' listener
onConnection(client, requestToken) ==
    IF requestToken # ValidToken
    THEN [client EXCEPT !.token = requestToken, !.readyState = "CLOSING"]
    ELSE [client EXCEPT !.token = requestToken,
                        !.readyState = "OPEN",
                        !.received = @ + 1,
                        !.onMessage = TRUE]

\* a sessions message goes to every socket of wss.clients that is OPEN
broadcastToClients(cs) ==
    [c \in Conns |-> IF cs[c].readyState = "OPEN"
                     THEN [cs[c] EXCEPT !.received = @ + 1]
                     ELSE cs[c]]

\* the store after the command of a message: clearSessions() for
\* clearSessions, findSessionById's getSessions() for the others
handleWebSocketMessage(m, type, alive, t) ==
    IF type = "clearSessions" THEN clearSessions(m, t) ELSE getSessions(m, alive, t)

(***************************************************************************)
(* Processes                                                               *)
(***************************************************************************)
\* the module state of process p and the file
View(p) ==
    [file |-> file, cachedStore |-> cachedStore[p],
     writeTimer |-> writeTimer[p], timers |-> timers[p], io |-> "ok"]

\* the same while the file system answers io
ViewWith(p, io) == [View(p) EXCEPT !.io = io]

\* process p leaves m behind
Commit(p, m) ==
    /\ file' = m.file
    /\ cachedStore' = [cachedStore EXCEPT ![p] = m.cachedStore]
    /\ writeTimer' = [writeTimer EXCEPT ![p] = m.writeTimer]
    /\ timers' = [timers EXCEPT ![p] = m.timers]

\* what readStore() returns in process p
Store(p) == readStore(View(p), now)

(***************************************************************************)
(* useServer (hooks/useServer.ts): each run of the effect has its own      *)
(* isMounted and serverRef; createMobileServer resolves or rejects later.  *)
(***************************************************************************)
Effects == 1..MaxEffects
Ports == {"3456", "3457"}

\* an effect that has not run
NoEffect ==
    [phase |-> "none", port |-> Null, isMounted |-> FALSE, serverRef |-> Null,
     server |-> "none", stops |-> 0]

\* useState: the initial values
initialHook ==
    [effects |-> [e \in Effects |-> NoEffect], n |-> 0, unmounted |-> FALSE,
     url |-> Null, actualPort |-> Null, loading |-> TRUE, error |-> Null]

\* the effect body: serverRef, isMounted, startServer() up to its await
useEffect(h, e, port) ==
    [h EXCEPT !.n = e,
              !.effects[e] = [phase |-> "pending", port |-> port, isMounted |-> TRUE,
                              serverRef |-> Null, server |-> "none", stops |-> 0]]

\* info.stop()
stop(effect) == [effect EXCEPT !.server = "stopped", !.stops = @ + 1]

\* as startServer was before version 1.1.2: no else branch
startServer_resolved_noElse(h, e) ==
    LET listening == [h.effects[e] EXCEPT !.phase = "resolved", !.server = "running"]
    IN IF listening.isMounted
       THEN [h EXCEPT !.effects[e] = [listening EXCEPT !.serverRef = "info"],
                      !.url = listening.port, !.actualPort = listening.port,
                      !.loading = FALSE]
       ELSE [h EXCEPT !.effects[e] = listening]

\* startServer after createMobileServer(port) has resolved: the server listens
startServer_resolved(h, e) ==
    LET listening == [h.effects[e] EXCEPT !.phase = "resolved", !.server = "running"]
    IN IF listening.isMounted
       THEN [h EXCEPT !.effects[e] = [listening EXCEPT !.serverRef = "info"],
                      !.url = listening.port, !.actualPort = listening.port,
                      !.loading = FALSE]
       ELSE [h EXCEPT !.effects[e] = stop(listening)]

\* startServer after createMobileServer(port) has rejected: the catch block
startServer_rejected(h, e) ==
    LET failed == [h.effects[e] EXCEPT !.phase = "rejected"]
    IN IF failed.isMounted
       THEN [h EXCEPT !.effects[e] = failed, !.error = "Error", !.loading = FALSE]
       ELSE [h EXCEPT !.effects[e] = failed]

\* the function the effect returns
cleanup(h, e) ==
    LET unmounted == [h.effects[e] EXCEPT !.isMounted = FALSE]
    IN [h EXCEPT !.effects[e] = IF unmounted.serverRef # Null THEN stop(unmounted)
                                ELSE unmounted]

Init ==
    /\ hook = initialHook
    /\ file = <<>>
    /\ cachedStore = [p \in Procs |-> <<>>]
    /\ writeTimer = [p \in Procs |-> FALSE]
    /\ timers = [p \in Procs |-> 0]
    /\ now = 0
    /\ last = [op |-> "init"]
    /\ burst = [p \in Procs |-> 0]
    /\ pc = [p \in HookProcs |-> "idle"]
    /\ ev = [p \in HookProcs |-> <<>>]
    /\ clients = [c \in Conns |-> NoClient]
    /\ watch = [pending |-> FALSE, alive |-> Ttys]

(***************************************************************************)
(* Specification Spec: the store's functions called one after another,     *)
(* each call's write reaching the file before the next call (the hook      *)
(* handler and the tests flush explicitly; elsewhere the debounce timeout  *)
(* fires first).  The state between calls is the file.  All calls happen   *)
(* at one clock reading.                                                   *)
(***************************************************************************)
\* the pending timeout, if any, fires
settle(m, t) == IF m.timers > 0 THEN timeoutFires(m, t) ELSE m

WithinBounds(m) ==
    Len(readStore(m, now).sessions) <= MaxSessions

\* the keys a call deleted: in the store m before it, not in the store m2 after it
Removed(m, m2) == Keys(readStore(m, now).sessions) \ Keys(readStore(m2, now).sessions)

HookEvent(events, messages) ==
    \E event \in events, assistantMessage \in messages :
        \E m \in {handleHookEvent(View("w"), event, assistantMessage, now)} :
           /\ WithinBounds(m)
           /\ Commit("w", m)
           /\ last' = [op |-> "updateSession", event |-> event, message |-> assistantMessage,
                       removed |-> Removed(View("w"), m)]
           /\ UNCHANGED <<now, burst, pc, ev, clients, watch, hook>>

ScanTick(batches) ==
    \E detected \in batches :
        \E m \in {settle(syncProcessSessions(View("w"), detected, now), now)} :
           /\ WithinBounds(m)
           /\ Commit("w", m)
           /\ last' = [op |-> "syncProcessSessions", detected |-> detected,
                       removed |-> Removed(View("w"), m)]
           /\ UNCHANGED <<now, burst, pc, ev, clients, watch, hook>>

ListSessions ==
    \E alive \in SUBSET Ttys :
        \E m \in {settle(getSessions(View("w"), alive, now), now)} :
           /\ Commit("w", m)
           /\ last' = [op |-> "getSessions", alive |-> alive,
                       result |-> getSessionsResult(View("w"), alive, now),
                       removed |-> Removed(View("w"), m)]
           /\ UNCHANGED <<now, burst, pc, ev, clients, watch, hook>>

RemoveSession ==
    \E sessionId \in HookIds, tty \in Ttys \cup {Undefined} :
        /\ Commit("w", settle(removeSession(View("w"), sessionId, tty, now), now))
        /\ last' = [op |-> "removeSession", session_id |-> sessionId, tty |-> tty]
        /\ UNCHANGED <<now, burst, pc, ev, clients, watch, hook>>

ClearSessions ==
    /\ Commit("w", settle(clearSessions(View("w"), now), now))
    /\ last' = [op |-> "clearSessions"]
    /\ UNCHANGED <<now, burst, pc, ev, clients, watch, hook>>

Next ==
    \/ HookEvent(HookEvents, {Undefined})
    \/ ScanTick(Batches)
    \/ ListSessions
    \/ RemoveSession
    \/ ClearSessions

Spec == Init /\ [][Next]_vars

(***************************************************************************)
(* Specification SpecDebounce: one long-lived process calls the store's    *)
(* functions at any pace, so that writes pile up in the cache; its         *)
(* debounce timeout fires between calls; the clock advances.               *)
(***************************************************************************)
DebounceEvents ==
    {e \in HookEvents : /\ e.session_id = "a"
                        /\ e.tty = "/dev/t1"
                        /\ e.hook_event_name \in {"PreToolUse", "Stop"}
                        /\ e.notification_type = Undefined}

DebounceBatches == {d \in Batches : Len(d) <= 1 /\ \A i \in 1..Len(d) : d[i].pid = 1}

\* a call that ends in writeStore
Writes(m) ==
    /\ burst["w"] < MaxBurst
    /\ WithinBounds(m)
    /\ Commit("w", m)
    /\ burst' = [burst EXCEPT !["w"] = @ + 1]

CallUpdateSession ==
    \E event \in DebounceEvents :
        /\ Writes(updateSession(View("w"), event, Undefined, now))
        /\ last' = [op |-> "updateSession", event |-> event, message |-> Undefined]
        /\ UNCHANGED <<now, pc, ev, clients, watch, hook>>

CallSyncProcessSessions ==
    \E detected \in DebounceBatches :
        /\ Writes(syncProcessSessions(View("w"), detected, now))
        /\ last' = [op |-> "syncProcessSessions", detected |-> detected]
        /\ UNCHANGED <<now, pc, ev, clients, watch, hook>>

CallGetSessions ==
    \E alive \in SUBSET Ttys :
        \E m \in {getSessions(View("w"), alive, now)} :
           /\ IF m # View("w") THEN Writes(m) ELSE UNCHANGED <<file, cachedStore, writeTimer, timers, burst>>
           /\ last' = [op |-> "getSessions", alive |-> alive,
                       result |-> getSessionsResult(View("w"), alive, now)]
           /\ UNCHANGED <<now, pc, ev, clients, watch, hook>>

CallClearSessions ==
    /\ Writes(clearSessions(View("w"), now))
    /\ last' = [op |-> "clearSessions"]
    /\ UNCHANGED <<now, pc, ev, clients, watch, hook>>

CallFlushPendingWrites ==
    /\ Commit("w", flushPendingWrites(View("w"), now))
    /\ burst' = [burst EXCEPT !["w"] = 0]
    /\ last' = [op |-> "flushPendingWrites", burst |-> burst["w"], after |-> last.op]
    /\ UNCHANGED <<now, pc, ev, clients, watch, hook>>

CallResetStoreCache ==
    /\ Commit("w", resetStoreCache(View("w")))
    /\ burst' = [burst EXCEPT !["w"] = 0]
    /\ last' = [op |-> "resetStoreCache", burst |-> burst["w"]]
    /\ UNCHANGED <<now, pc, ev, clients, watch, hook>>

\* the event loop runs a scheduled flushWrite timeout
TimerFires ==
    /\ timers["w"] > 0
    /\ Commit("w", timeoutFires(View("w"), now))
    /\ burst' = [burst EXCEPT !["w"] = 0]
    /\ last' = [op |-> "flushWrite", burst |-> burst["w"], after |-> last.op]
    /\ UNCHANGED <<now, pc, ev, clients, watch, hook>>

\* a hook process starts, runs handleHookEvent and exits
HookRuns ==
    \E event \in DebounceEvents :
        \E m \in {handleHookEvent(View("h1"), event, Undefined, now)} :
           /\ WithinBounds(m)
           /\ Commit("h1", m)
           /\ last' = [op |-> "handleHookEvent", event |-> event]
           /\ UNCHANGED <<now, burst, pc, ev, clients, watch, hook>>

Tick ==
    /\ now < MaxClock
    /\ now' = now + 1
    /\ last' = [op |-> "tick"]
    /\ UNCHANGED <<file, cachedStore, writeTimer, timers, burst, pc, ev, clients, watch, hook>>

NextDebounce ==
    \/ CallUpdateSession
    \/ CallSyncProcessSessions
    \/ CallGetSessions
    \/ CallClearSessions
    \/ CallFlushPendingWrites
    \/ CallResetStoreCache
    \/ TimerFires
    \/ HookRuns
    \/ Tick

SpecDebounce == Init /\ [][NextDebounce]_vars

\* Node's event loop runs a timeout that is due, and a pending timeout keeps
\* the process alive
SpecDebounceFair == SpecDebounce /\ WF_vars(TimerFires)

(***************************************************************************)
(* Specification SpecHooks: two hook processes, each a separate OS process *)
(* with its own cache and timer, run handleHookEvent side by side.  Within *)
(* a process updateSession and flushPendingWrites are synchronous; the     *)
(* processes interleave between one's read of the file and its write.      *)
(* When both have exited, the next two hooks start.                        *)
(***************************************************************************)
RaceIds == {"a", "b"}

RaceEvents ==
    [session_id : RaceIds, cwd : Cwds, tty : Ttys,
     hook_event_name : {"PreToolUse", "Stop"}, notification_type : {Undefined}]

\* handler.ts line 74: updateSession(event)
HookUpdates(p) ==
    /\ pc[p] = "idle"
    /\ \E event \in RaceEvents :
          /\ Commit(p, updateSession(View(p), event, Undefined, now))
          /\ ev' = [ev EXCEPT ![p] = <<event>>]
          /\ last' = [op |-> "updateSession", proc |-> p, event |-> event]
    /\ pc' = [pc EXCEPT ![p] = "updated"]
    /\ UNCHANGED <<now, burst, clients, watch, hook>>

\* handler.ts line 77: flushPendingWrites(), after which the process exits
HookFlushes(p) ==
    /\ pc[p] = "updated"
    /\ Commit(p, flushPendingWrites(View(p), now))
    /\ pc' = [pc EXCEPT ![p] = "exited"]
    /\ last' = [op |-> "flushPendingWrites", proc |-> p]
    /\ UNCHANGED <<now, burst, ev, clients, watch, hook>>

\* both hooks are gone; the next two may start
NextHooks ==
    /\ \A p \in HookProcs : pc[p] = "exited"
    /\ pc' = [p \in HookProcs |-> "idle"]
    /\ ev' = [p \in HookProcs |-> <<>>]
    /\ last' = [op |-> "exit"]
    /\ UNCHANGED <<file, cachedStore, writeTimer, timers, now, burst, clients, watch, hook>>

NextRace ==
    \/ \E p \in HookProcs : HookUpdates(p)
    \/ \E p \in HookProcs : HookFlushes(p)
    \/ NextHooks

SpecHooks == Init /\ [][NextRace]_vars

(***************************************************************************)
(* Specification SpecTorn: as SpecHooks, with writeFileSync in two steps   *)
(* (it opens the file with O_TRUNC, which empties it, and then writes the  *)
(* text), while the monitor process "w" reads the store.                   *)
(***************************************************************************)
\* flushWrite line 65: writeFileSync has opened the file and written none or
\* part of the text
HookOpensFile(p) ==
    /\ pc[p] = "updated"
    /\ file' = <<Torn>>
    /\ pc' = [pc EXCEPT ![p] = "writing"]
    /\ last' = [op |-> "open", proc |-> p]
    /\ UNCHANGED <<cachedStore, writeTimer, timers, now, burst, ev, clients, watch, hook>>

\* writeFileSync has written the whole text; flushWrite returns and the
\* process exits
HookWritesFile(p) ==
    /\ pc[p] = "writing"
    /\ Commit(p, flushPendingWrites(View(p), now))
    /\ pc' = [pc EXCEPT ![p] = "exited"]
    /\ last' = [op |-> "flushPendingWrites", proc |-> p]
    /\ UNCHANGED <<now, burst, ev, clients, watch, hook>>

\* the monitor calls readStore()
MonitorReads ==
    /\ last' = [op |-> "readStore", proc |-> "w", result |-> readStore(View("w"), now)]
    /\ UNCHANGED <<file, cachedStore, writeTimer, timers, now, burst, pc, ev, clients, watch, hook>>

NextTorn ==
    \/ \E p \in HookProcs : HookUpdates(p)
    \/ \E p \in HookProcs : HookOpensFile(p)
    \/ \E p \in HookProcs : HookWritesFile(p)
    \/ NextHooks
    \/ MonitorReads

SpecTorn == Init /\ [][NextTorn]_vars

(***************************************************************************)
(* Specification SpecFaults: one long-lived process calls the store while  *)
(* the file system may fail any call: the directory cannot be created, the *)
(* file cannot be read, the write fails before or after the file was       *)
(* opened.                                                                 *)
(***************************************************************************)
FaultEvents ==
    {e \in HookEvents : /\ e.session_id = "a"
                        /\ e.hook_event_name \in {"PreToolUse", "Stop"}
                        /\ e.notification_type = Undefined}

\* mkdirSync is called only when STORE_DIR is missing, and then there is no
\* file; readFileSync is called only when the file exists
Possible(io) ==
    /\ io = "mkdir" => file = <<>>
    /\ io = "read" => file # <<>>

FaultyReadStore ==
    \E io \in IoOutcomes :
        /\ Possible(io)
        /\ last' = [op |-> "readStore", io |-> io,
                    threw |-> readStoreThrows(ViewWith("w", io)),
                    result |-> IF readStoreThrows(ViewWith("w", io)) THEN <<>>
                               ELSE <<readStore(ViewWith("w", io), now)>>]
        /\ UNCHANGED <<file, cachedStore, writeTimer, timers, now, burst, pc, ev, clients, watch, hook>>

\* updateSession: the exception of readStore leaves it before writeStore
FaultyUpdateSession ==
    \E io \in IoOutcomes, event \in FaultEvents :
        /\ Possible(io)
        /\ IF readStoreThrows(ViewWith("w", io))
           THEN UNCHANGED <<file, cachedStore, writeTimer, timers, burst>>
           ELSE Writes(updateSession(ViewWith("w", io), event, Undefined, now))
        /\ last' = [op |-> "updateSession", io |-> io, event |-> event,
                    threw |-> readStoreThrows(ViewWith("w", io))]
        /\ UNCHANGED <<now, pc, ev, clients, watch, hook>>

FaultyFlushPendingWrites ==
    \E io \in IoOutcomes :
        /\ Possible(io)
        /\ Commit("w", flushPendingWrites(ViewWith("w", io), now))
        /\ burst' = [burst EXCEPT !["w"] = 0]
        /\ last' = [op |-> "flushPendingWrites", io |-> io, pending |-> writeTimer["w"]]
        /\ UNCHANGED <<now, pc, ev, clients, watch, hook>>

FaultyTimerFires ==
    \E io \in IoOutcomes :
        /\ Possible(io)
        /\ timers["w"] > 0
        /\ Commit("w", timeoutFires(ViewWith("w", io), now))
        /\ burst' = [burst EXCEPT !["w"] = 0]
        /\ last' = [op |-> "flushWrite", io |-> io, pending |-> TRUE]
        /\ UNCHANGED <<now, pc, ev, clients, watch, hook>>

NextFaults ==
    \/ FaultyReadStore
    \/ FaultyUpdateSession
    \/ FaultyFlushPendingWrites
    \/ FaultyTimerFires

SpecFaults == Init /\ [][NextFaults]_vars

(***************************************************************************)
(* Specification SpecHookInput: hook commands run one after another, each  *)
(* a process of its own, with any event name and any stdin.                *)
(***************************************************************************)
HookCommand ==
    \E eventName \in EventNameArgs, tty \in {"/dev/t1"}, stdin \in Stdins :
        \E m \in {hookCommand(View("h1"), eventName, tty, stdin, now)} :
           /\ WithinBounds(m)
           /\ Commit("h1", m)
           /\ last' = [op |-> "hook", eventName |-> eventName, tty |-> tty, stdin |-> stdin,
                       exit |-> validateHookInput(eventName, stdin)]
           /\ UNCHANGED <<now, burst, pc, ev, clients, watch, hook>>

NextHookInput == HookCommand

SpecHookInput == Init /\ [][NextHookInput]_vars

(***************************************************************************)
(* Specification SpecClock: as Spec, while time passes between the calls:  *)
(* each hook event and each scan reads the clock (new Date()) at or after  *)
(* the previous reading.                                                   *)
(***************************************************************************)
ClockEvents == {e \in HookEvents : e.session_id = "a" /\ e.tty # "/dev/t2"}

\* the 30 minutes of inactivity after which the README says a session is
\* removed, in readings of the model's clock
InactivityTimeout == 1

\* what new Date() can return in the next call
ClockReadings == {t \in now..(now + 1) : t <= MaxClock}

TimedHookEvent ==
    \E t \in ClockReadings, event \in ClockEvents :
        \E m \in {handleHookEvent(View("w"), event, Undefined, t)} :
           /\ WithinBounds(m)
           /\ Commit("w", m)
           /\ now' = t
           /\ last' = [op |-> "updateSession", event |-> event, message |-> Undefined,
                       replay |-> (last.op = "updateSession" /\ last.event = event)]
           /\ UNCHANGED <<burst, pc, ev, clients, watch, hook>>

TimedScanTick ==
    \E t \in ClockReadings, detected \in Batches :
        \E m \in {settle(syncProcessSessions(View("w"), detected, t), t)} :
           /\ WithinBounds(m)
           /\ Commit("w", m)
           /\ now' = t
           /\ last' = [op |-> "syncProcessSessions", detected |-> detected]
           /\ UNCHANGED <<burst, pc, ev, clients, watch, hook>>

NextClock ==
    \/ TimedHookEvent
    \/ TimedScanTick
    \/ ListSessions
    \/ RemoveSession
    \/ ClearSessions

SpecClock == Init /\ [][NextClock]_vars

(***************************************************************************)
(* Specification SpecSort: as Spec, with a wall clock: new Date() is not    *)
(* monotonic, so that a session written later can carry an earlier         *)
(* created_at than one written before it.                                  *)
(***************************************************************************)
SortEvents ==
    {e \in HookEvents : /\ e.hook_event_name = "PreToolUse"
                        /\ e.notification_type = Undefined}

WallClockHookEvent ==
    \E t \in 0..MaxClock, event \in SortEvents :
        \E m \in {handleHookEvent(View("w"), event, Undefined, t)} :
           /\ WithinBounds(m)
           /\ Commit("w", m)
           /\ now' = t
           /\ last' = [op |-> "updateSession", event |-> event, message |-> Undefined]
           /\ UNCHANGED <<burst, pc, ev, clients, watch, hook>>

NextSort ==
    \/ WallClockHookEvent
    \/ ListSessions
    \/ RemoveSession

SpecSort == Init /\ [][NextSort]_vars

(***************************************************************************)
(* Specification SpecAlias: the long-lived process calls getSessions       *)
(* between its writes and keeps the array, whose elements are JavaScript   *)
(* objects: an element that enrichSessionsWithTabNames returned as it got  *)
(* it is the object held in store.sessions, and while a write is pending   *)
(* that store is cachedStore.  The caller then assigns to a field of an    *)
(* element.                                                                *)
(***************************************************************************)
AliasEvents ==
    {e \in HookEvents : /\ e.session_id = "a"
                        /\ e.tty \in {Undefined, "/dev/t1"}
                        /\ e.hook_event_name = "PreToolUse"
                        /\ e.notification_type = Undefined}

TabNames == [Ttys -> {Undefined, "tab"}]

AliasUpdateSession ==
    \E event \in AliasEvents :
        /\ Writes(updateSession(View("w"), event, Undefined, now))
        /\ last' = [op |-> "updateSession", event |-> event, message |-> Undefined]
        /\ UNCHANGED <<now, pc, ev, clients, watch, hook>>

\* getSessions(): the store it leaves cached holds the objects it handed to
\* enrichSessionsWithTabNames, as that call left them
AliasGetSessions ==
    \E alive \in SUBSET Ttys, tabNames \in TabNames :
        \E m \in {getSessions(View("w"), alive, now)},
           objects \in {getSessionsObjects(View("w"), alive, tabNames, now)} :
           LET pending == m.cachedStore # <<>>
               inputOf(key) == objects[CHOOSE i \in 1..Len(objects) : objects[i].key = key].input
               left == IF pending
                       THEN [m EXCEPT !.cachedStore =
                               <<[m.cachedStore[1] EXCEPT !.sessions =
                                    [i \in 1..Len(@) |-> [key |-> @[i].key, val |-> inputOf(@[i].key)]]]>>]
                       ELSE m
           IN /\ IF m # View("w")
                 THEN Writes(left)
                 ELSE Commit("w", left) /\ UNCHANGED burst
              /\ last' = [op |-> "getSessions", alive |-> alive,
                          held |-> [i \in 1..Len(objects) |->
                                      [key |-> objects[i].key,
                                       session |-> objects[i].session,
                                       shared |-> objects[i].same /\ pending]]]
              /\ UNCHANGED <<now, pc, ev, clients, watch, hook>>

\* the caller of getSessions assigns to the status of an element of the
\* array it was given
AliasMutate ==
    /\ last.op = "getSessions"
    /\ \E i \in 1..Len(last.held), status \in Statuses :
          /\ status # last.held[i].session.status
          /\ cachedStore' =
                IF last.held[i].shared
                THEN [cachedStore EXCEPT !["w"] =
                        <<[@[1] EXCEPT !.sessions =
                             Put(@, last.held[i].key,
                                 [Get(@, last.held[i].key) EXCEPT !.status = status])]>>]
                ELSE cachedStore
          /\ last' = [op |-> "mutate", key |-> last.held[i].key, status |-> status,
                      shared |-> last.held[i].shared]
    /\ UNCHANGED <<file, writeTimer, timers, now, burst, pc, ev, clients, watch, hook>>

NextAlias ==
    \/ AliasUpdateSession
    \/ AliasGetSessions
    \/ AliasMutate
    \/ TimerFires

SpecAlias == Init /\ [][NextAlias]_vars

(***************************************************************************)
(* Specification SpecScan: as Spec, with the scan of useProcessScanner:    *)
(* scanForCodexProcesses runs ps and lsof, either of which may fail, and   *)
(* its result goes to syncProcessSessions.                                 *)
(***************************************************************************)
ScanEvents ==
    {e \in HookEvents : /\ e.session_id = "a"
                        /\ e.hook_event_name = "PreToolUse"
                        /\ e.notification_type = Undefined}

\* useProcessScanner: scan(); an exception of scanForCodexProcesses leaves
\* scan before syncProcessSessions
Scan ==
    \E ps \in PsResults, lsof \in LsofResults :
        \E r \in {scanForCodexProcesses(ps, lsof)} :
           \E m \in {IF r.threw THEN View("w")
                      ELSE settle(syncProcessSessions(View("w"), r.results, now), now)} :
              /\ WithinBounds(m)
              /\ Commit("w", m)
              /\ last' = [op |-> "scan", ps |-> ps, lsof |-> lsof, threw |-> r.threw,
                          detected |-> r.results, removed |-> Removed(View("w"), m)]
              /\ UNCHANGED <<now, burst, pc, ev, clients, watch, hook>>

NextScan ==
    \/ HookEvent(ScanEvents, {Undefined})
    \/ Scan

SpecScan == Init /\ [][NextScan]_vars

(***************************************************************************)
(* Specification SpecServer: the web server of the monitor.  Clients       *)
(* connect with or without the token, send commands and leave; the file    *)
(* watcher broadcasts the sessions; hook events change the store.          *)
(***************************************************************************)
ServerEvents ==
    {e \in HookEvents : /\ e.session_id = "a"
                        /\ e.tty = "/dev/t1"
                        /\ e.hook_event_name = "PreToolUse"
                        /\ e.notification_type = Undefined}

\* wss.on('connection'): sendSessionsToClient calls getSessions
Connects(c) ==
    /\ clients[c].readyState = "NONE"
    /\ \E requestToken \in RequestTokens, alive \in SUBSET Ttys :
          \E client \in {onConnection(clients[c], requestToken)} :
             /\ clients' = [clients EXCEPT ![c] = client]
             /\ IF client.received > 0
                THEN Commit("w", settle(getSessions(View("w"), alive, now), now))
                ELSE UNCHANGED <<file, cachedStore, writeTimer, timers>>
             /\ last' = [op |-> "connection", client |-> c, token |-> requestToken]
    /\ UNCHANGED <<now, burst, pc, ev, watch, hook>>

\* the closing handshake of ws.close() ends: the socket leaves wss.clients
CloseCompletes(c) ==
    /\ clients[c].readyState = "CLOSING"
    /\ clients' = [clients EXCEPT ![c].readyState = "CLOSED"]
    /\ last' = [op |-> "close", client |-> c]
    /\ UNCHANGED <<file, cachedStore, writeTimer, timers, now, burst, pc, ev, watch, hook>>

\* the client ends the connection
ClientLeaves(c) ==
    /\ clients[c].readyState = "OPEN"
    /\ clients' = [clients EXCEPT ![c].readyState = "CLOSED"]
    /\ last' = [op |-> "close", client |-> c]
    /\ UNCHANGED <<file, cachedStore, writeTimer, timers, now, burst, pc, ev, watch, hook>>

\* a message of the client arrives while its socket is not closed; it is
\* handled when the socket has a 'message' listener
ClientSends(c) ==
    /\ clients[c].readyState \in {"OPEN", "CLOSING"}
    /\ clients[c].commands < MaxMessages
    /\ \E type \in MessageTypes, alive \in SUBSET Ttys :
          /\ IF clients[c].onMessage
             THEN /\ Commit("w", settle(handleWebSocketMessage(View("w"), type, alive, now), now))
                  /\ clients' = [clients EXCEPT ![c].commands = @ + 1]
             ELSE UNCHANGED <<file, cachedStore, writeTimer, timers, clients, watch, hook>>
          /\ last' = [op |-> "message", client |-> c, type |-> type]
    /\ UNCHANGED <<now, burst, pc, ev, watch, hook>>

\* watcher.on('change'): getSessions() and broadcastToClients
WatcherChange ==
    /\ file # <<>>
    /\ \A c \in Conns : clients[c].received < MaxMessages
    /\ \E alive \in SUBSET Ttys :
          Commit("w", settle(getSessions(View("w"), alive, now), now))
    /\ clients' = broadcastToClients(clients)
    /\ last' = [op |-> "broadcast"]
    /\ UNCHANGED <<now, burst, pc, ev, watch, hook>>

\* a hook process handles an event
ServerHookEvent ==
    /\ HookEvent(ServerEvents, {Undefined})
    /\ UNCHANGED clients

NextServer ==
    \/ \E c \in Conns : Connects(c)
    \/ \E c \in Conns : CloseCompletes(c)
    \/ \E c \in Conns : ClientLeaves(c)
    \/ \E c \in Conns : ClientSends(c)
    \/ WatcherChange
    \/ ServerHookEvent

SpecServer == Init /\ [][NextServer]_vars

(***************************************************************************)
(* Specification SpecWatcher: the cycle of the file watcher in the         *)
(* long-lived process.  A write to sessions.json, by a hook process or by  *)
(* the process's own flush, queues a change event; the change handler      *)
(* calls getSessions, which may schedule a write.  Terminals close.        *)
(***************************************************************************)
WatcherEvents ==
    {e \in HookEvents : /\ e.session_id = "a"
                        /\ e.hook_event_name = "PreToolUse"
                        /\ e.notification_type = Undefined}

\* a hook process writes the file; chokidar reports a change of a file that
\* existed
WatcherHookWrites ==
    \E event \in WatcherEvents :
        \E m \in {handleHookEvent(View("h1"), event, Undefined, now)} :
           /\ WithinBounds(m)
           /\ Commit("h1", m)
           /\ watch' = [watch EXCEPT !.pending = @ \/ file # <<>>]
           /\ last' = [op |-> "handleHookEvent", event |-> event]
           /\ UNCHANGED <<now, burst, pc, ev, clients, hook>>

\* watcher.on('change'): getSessions() and broadcastToClients
WatcherFires ==
    /\ watch.pending
    /\ \E m \in {getSessions(View("w"), watch.alive, now)} :
          /\ Commit("w", m)
          /\ last' = [op |-> "getSessions", alive |-> watch.alive,
                      pruned |-> Removed(View("w"), m),
                      wrote |-> m # View("w")]
    /\ clients' = broadcastToClients(clients)
    /\ watch' = [watch EXCEPT !.pending = FALSE]
    /\ UNCHANGED <<now, burst, pc, ev, hook>>

\* the debounce timeout of the long-lived process fires: flushWrite writes
\* the file, which chokidar reports
WatcherTimerFires ==
    /\ timers["w"] > 0
    /\ Commit("w", timeoutFires(View("w"), now))
    /\ watch' = [watch EXCEPT !.pending = @ \/ cachedStore["w"] # <<>>]
    /\ last' = [op |-> "flushWrite"]
    /\ UNCHANGED <<now, burst, pc, ev, clients, hook>>

\* a terminal closes: isTtyAlive answers false for it from now on
TtyCloses ==
    \E T \in watch.alive :
        /\ watch' = [watch EXCEPT !.alive = @ \ {T}]
        /\ last' = [op |-> "ttyCloses", tty |-> T]
        /\ UNCHANGED <<file, cachedStore, writeTimer, timers, now, burst, pc, ev, clients, hook>>

NextWatcher ==
    \/ WatcherHookWrites
    \/ WatcherFires
    \/ WatcherTimerFires
    \/ TtyCloses

SpecWatcher == Init /\ [][NextWatcher]_vars

\* Node's event loop runs a queued change event and a timeout that is due
SpecWatcherFair ==
    SpecWatcher /\ WF_vars(WatcherFires) /\ WF_vars(WatcherTimerFires)

(***************************************************************************)
(* Specification SpecUpdate: hook events whose lastMessage comes from the  *)
(* transcript file of the session, read by getLastAssistantMessage.        *)
(***************************************************************************)
\* content blocks of an assistant entry
ToolUseBlock == [type |-> "tool_use", text |-> Undefined]
EmptyTextBlock == [type |-> "text", text |-> ""]
TextBlock(str) == [type |-> "text", text |-> str]

\* one line of the transcript: not JSON, a user entry, or an assistant
\* entry with its content blocks
Garbage == [type |-> "garbage", content |-> <<>>]
UserEntry == [type |-> "user", content |-> <<TextBlock("u")>>]
AssistantEntry(blocks) == [type |-> "assistant", content |-> blocks]

TranscriptLines ==
    {Garbage, UserEntry,
     AssistantEntry(<<>>),
     AssistantEntry(<<ToolUseBlock>>),
     AssistantEntry(<<EmptyTextBlock>>),
     AssistantEntry(<<TextBlock("m1")>>),
     AssistantEntry(<<ToolUseBlock, TextBlock("m2")>>)}

\* the transcript file: whether it exists, whether readFileSync succeeds,
\* and its lines
Transcripts ==
    [exists : BOOLEAN, readable : BOOLEAN,
     lines : {<<>>} \cup {<<l>> : l \in TranscriptLines}
             \cup {<<l1, l2>> : l1 \in TranscriptLines, l2 \in TranscriptLines}]

TranscriptPaths == {"", "/p/a.jsonl"}

\* the first block of type text with a non-empty text, or Undefined
RECURSIVE firstText(_, _)
firstText(blocks, i) ==
    IF i > Len(blocks) THEN Undefined
    ELSE IF blocks[i].type = "text" /\ blocks[i].text # "" /\ blocks[i].text # Undefined
         THEN blocks[i].text
         ELSE firstText(blocks, i + 1)

\* the loop from the last line to the first
RECURSIVE lastAssistantText(_, _)
lastAssistantText(lines, i) ==
    IF i < 1 THEN Undefined
    ELSE IF lines[i].type = "assistant" /\ firstText(lines[i].content, 1) # Undefined
         THEN firstText(lines[i].content, 1)
         ELSE lastAssistantText(lines, i - 1)

getLastAssistantMessage(transcriptPath, transcript) ==
    IF transcriptPath = "" \/ ~transcript.exists THEN Undefined
    ELSE IF ~transcript.readable THEN Undefined
    ELSE lastAssistantText(transcript.lines, Len(transcript.lines))

\* updateSession lines 169-172
assistantMessageOf(transcriptPath, transcript) ==
    IF transcriptPath # "" THEN getLastAssistantMessage(transcriptPath, transcript)
    ELSE Undefined

\* why a reading gave what it gave
outcomeOf(transcriptPath, transcript) ==
    IF transcriptPath = "" THEN "noPath"
    ELSE IF ~transcript.exists THEN "absent"
    ELSE IF ~transcript.readable THEN "unreadable"
    ELSE IF lastAssistantText(transcript.lines, Len(transcript.lines)) = Undefined
         THEN "noAssistantText"
    ELSE "found"

\* what reading a transcript comes to: the message handed to updateSession
\* and the case of getLastAssistantMessage that produced it
TranscriptReadings ==
    {[outcome |-> outcomeOf(transcriptPath, transcript),
      message |-> assistantMessageOf(transcriptPath, transcript)] :
        transcriptPath \in TranscriptPaths, transcript \in Transcripts}

UpdateEvents ==
    {e \in HookEvents : /\ e.hook_event_name \in {"PreToolUse", "Stop"}
                        /\ e.notification_type = Undefined}

TranscriptHookEvent ==
    \E event \in UpdateEvents, reading \in TranscriptReadings :
        \E m \in {handleHookEvent(View("w"), event, reading.message, now)} :
           /\ WithinBounds(m)
           /\ Commit("w", m)
           /\ last' = [op |-> "updateSession", event |-> event,
                       message |-> reading.message,
                       reading |-> reading,
                       removed |-> Removed(View("w"), m)]
           /\ UNCHANGED <<now, burst, pc, ev, clients, watch, hook>>

NextUpdate ==
    \/ TranscriptHookEvent
    \/ ListSessions

SpecUpdate == Init /\ [][NextUpdate]_vars

(***************************************************************************)
(* Specification SpecUseServer: the component that uses useServer mounts,  *)
(* has its port changed and unmounts, while the createMobileServer calls   *)
(* of its effects resolve or reject in any order.                          *)
(***************************************************************************)
\* what leaves the rest of the program alone
HookOnly ==
    UNCHANGED <<file, cachedStore, writeTimer, timers, now, burst, pc, ev, clients, watch>>

\* first render: the effect runs
Mount ==
    /\ hook.n = 0
    /\ \E port \in Ports : hook' = useEffect(hook, 1, port)
    /\ last' = [op |-> "mount", e |-> 1]
    /\ HookOnly

\* the port prop changes: React runs the cleanup of the effect and then the
\* effect again
PortChanges ==
    /\ hook.n >= 1
    /\ hook.n < MaxEffects
    /\ ~hook.unmounted
    /\ \E port \in Ports \ {hook.effects[hook.n].port} :
          hook' = useEffect(cleanup(hook, hook.n), hook.n + 1, port)
    /\ last' = [op |-> "portChanges", e |-> hook.n + 1]
    /\ HookOnly

\* the component unmounts: React runs the cleanup of the effect
Unmount ==
    /\ hook.n >= 1
    /\ ~hook.unmounted
    /\ hook' = [cleanup(hook, hook.n) EXCEPT !.unmounted = TRUE]
    /\ last' = [op |-> "unmount", e |-> hook.n]
    /\ HookOnly

Resolves(e) ==
    /\ hook.effects[e].phase = "pending"
    /\ hook' = startServer_resolved(hook, e)
    /\ last' = [op |-> "resolved", e |-> e]
    /\ HookOnly

Rejects(e) ==
    /\ hook.effects[e].phase = "pending"
    /\ hook' = startServer_rejected(hook, e)
    /\ last' = [op |-> "rejected", e |-> e]
    /\ HookOnly

NextUseServer ==
    \/ Mount
    \/ PortChanges
    \/ Unmount
    \/ \E e \in Effects : Resolves(e)
    \/ \E e \in Effects : Rejects(e)

SpecUseServer == Init /\ [][NextUseServer]_vars

(***************************************************************************)
(* Specification SpecCodexHook: as Spec, with hook events whose session_id *)
(* is the id syncProcessSessions gives to a detected process, so that      *)
(* updateSession and syncProcessSessions write the same keys.              *)
(***************************************************************************)
CodexHookEvents ==
    [session_id : {codexSessionId(1)}, cwd : Cwds, tty : Ttys \cup {Undefined},
     hook_event_name : HookEventNames, notification_type : {Undefined, "permission_prompt"}]

NextCodexHook ==
    \/ HookEvent(CodexHookEvents, {Undefined})
    \/ ScanTick(Batches)
    \/ ListSessions
    \/ ClearSessions

SpecCodexHook == Init /\ [][NextCodexHook]_vars

(***************************************************************************)
(* Properties of the store's contents (specification Spec)                 *)
(***************************************************************************)
\* the session map process "w" reads
Sessions == Store("w").sessions

\* the records of a map whose tty is T
OnTty(sessions, T) == {i \in 1..Len(sessions) : sessions[i].val.tty = T}

\* C1: in every reachable store state no two session records have the same
\* non-empty tty.
C1_OneSessionPerTty ==
    \A T \in Ttys : Cardinality(OnTty(Sessions, T)) <= 1

\* C2: after updateSession stores session B on a non-empty TTY T, or
\* syncProcessSessions stores a detected process on T, every record on T has
\* the id that was stored (for a scan: of the process listed last on T) and
\* the store holds exactly one record on T.
C2_SupersessionLeavesOne ==
    /\ (last.op = "updateSession" /\ last.event.tty # Undefined) =>
          /\ \A i \in OnTty(Sessions, last.event.tty) :
                Sessions[i].val.session_id = last.event.session_id
          /\ Cardinality(OnTty(Sessions, last.event.tty)) = 1
    /\ last.op = "syncProcessSessions" =>
          \A n \in 1..Len(last.detected) :
             LET T == last.detected[n].tty
                 latest == CHOOSE k \in 1..Len(last.detected) :
                              /\ last.detected[k].tty = T
                              /\ \A j \in 1..Len(last.detected) :
                                    last.detected[j].tty = T => j <= k
             IN /\ \A i \in OnTty(Sessions, T) :
                      Sessions[i].val.session_id = codexSessionId(last.detected[latest].pid)
                /\ Cardinality(OnTty(Sessions, T)) = 1

\* the status transition table of the hook event reducer, one row per line:
\* <<event names, notification types, current statuses, new status>>; the
\* first row that matches decides
AnyStatus == Statuses \cup {Undefined}
StatusTable ==
    << <<{"Stop"}, NotificationTypes, AnyStatus, "stopped">>,
       <<{"UserPromptSubmit"}, NotificationTypes, AnyStatus, "running">>,
       <<HookEventNames, NotificationTypes, {"stopped"}, "stopped">>,
       <<{"PreToolUse"}, NotificationTypes, AnyStatus, "running">>,
       <<{"Notification"}, {"permission_prompt"}, AnyStatus, "waiting_input">>,
       <<HookEventNames, NotificationTypes, AnyStatus, "running">> >>

RowMatches(row, event, current) ==
    /\ event.hook_event_name \in row[1]
    /\ event.notification_type \in row[2]
    /\ current \in row[3]

TableStatus(event, current) ==
    LET first == CHOOSE n \in 1..Len(StatusTable) :
                    /\ RowMatches(StatusTable[n], event, current)
                    /\ \A k \in 1..(n - 1) : ~RowMatches(StatusTable[k], event, current)
    IN StatusTable[first][4]

\* the status of the record stored in s at the key of the event, Undefined if there is none
StatusAt(s, event) ==
    LET key == getSessionKey(event.session_id, event.tty)
    IN IF Has(s, key) THEN Get(s, key).status ELSE Undefined

\* the record at the event's key is this event's session: same id, same TTY
SameRecord(s, event) ==
    LET key == getSessionKey(event.session_id, event.tty)
    IN /\ Has(s, key)
       /\ Get(s, key).session_id = event.session_id
       /\ Get(s, key).tty = event.tty

\* the currentStatus updateSession hands to determineStatus: the status of
\* the record it finds at the event's key after the supersession step
CurrentStatus(s, event) ==
    IF existingSession(s, event) # <<>> THEN existingSession(s, event)[1].status ELSE Undefined

\* C3: the status updateSession stores is determineStatus(event, current),
\* and it is the one the priority table gives for the event's name, its
\* notification type and the current status (none when there is no record).
C3_StatusFollowsTable ==
    [][last'.op = "updateSession" =>
         StatusAt(Sessions', last'.event) =
            TableStatus(last'.event, CurrentStatus(Sessions, last'.event))]_vars

C3_Witness ==
    /\ last.op = "updateSession"
    /\ last.event.hook_event_name = "Notification"
    /\ last.event.notification_type = "permission_prompt"
    /\ StatusAt(Sessions, last.event) = "waiting_input"

\* C4: once a session's record is stopped, an event for that record (same
\* session id and TTY) leaves it stopped unless it is UserPromptSubmit, which
\* makes it running.
C4_StoppedIsSticky ==
    [][(/\ last'.op = "updateSession"
        /\ SameRecord(Sessions, last'.event)
        /\ StatusAt(Sessions, last'.event) = "stopped") =>
         StatusAt(Sessions', last'.event) =
            IF last'.event.hook_event_name = "UserPromptSubmit"
            THEN "running" ELSE "stopped"]_vars

C4_Witness ==
    /\ last.op = "updateSession"
    /\ last.event.hook_event_name \in {"PreToolUse", "PostToolUse", "Notification"}
    /\ StatusAt(Sessions, last.event) = "stopped"

\* the records of a map that the process scan made
CodexRecords(sessions) == {i \in 1..Len(sessions) : sessions[i].val.source = "codex"}

C6_VanishedIsMarkedStopped ==
    [][last'.op = "syncProcessSessions" =>
         \A i \in CodexRecords(Sessions) :
            parsePid(Sessions[i].val.session_id) \notin detectedPids(last'.detected) =>
               /\ Has(Sessions', Sessions[i].key)
               /\ Get(Sessions', Sessions[i].key).status = "stopped"
               /\ \E n \in 1..Len(sortByCreatedAt(Values(Sessions'))) :
                     sortByCreatedAt(Values(Sessions'))[n].session_id =
                        Sessions[i].val.session_id]_vars

\* the records of a map that came from hook events
HookRecords(sessions) == {i \in 1..Len(sessions) : sessions[i].val.source = Undefined}

\* the TTYs and the keys a scan batch claims
DetectedTtys(detected) == {detected[n].tty : n \in 1..Len(detected)}
DetectedKeys(detected) ==
    {getSessionKey(codexSessionId(detected[n].pid), detected[n].tty) : n \in 1..Len(detected)}

\* C7 as stated: syncProcessSessions leaves every hook-sourced record present
\* and unchanged.
C7_HookRecordsUntouched ==
    [][last'.op = "syncProcessSessions" =>
         \A i \in HookRecords(Sessions) :
            /\ Has(Sessions', Sessions[i].key)
            /\ Get(Sessions', Sessions[i].key) = Sessions[i].val]_vars

\* C7 amended: syncProcessSessions leaves every hook-sourced record present
\* and unchanged, except a record on the TTY of a detected process or stored
\* at the key of a detected process's session.
C7_HookRecordsOffScannedTtysUntouched ==
    [][last'.op = "syncProcessSessions" =>
         \A i \in HookRecords(Sessions) :
            (/\ Sessions[i].val.tty \notin DetectedTtys(last'.detected)
             /\ Sessions[i].key \notin DetectedKeys(last'.detected)) =>
               /\ Has(Sessions', Sessions[i].key)
               /\ Get(Sessions', Sessions[i].key) = Sessions[i].val]_vars

C7_Witness ==
    /\ last.op = "syncProcessSessions"
    /\ last.detected # <<>>
    /\ last.removed # {}
    /\ \E i \in HookRecords(Sessions) :
          Sessions[i].val.tty \in Ttys \ DetectedTtys(last.detected)

(***************************************************************************)
(* Properties of the debounced write (specification SpecDebounce)          *)
(***************************************************************************)
\* what flushWrite puts in the file for cached data d at clock t
Stamped(d, t) == <<[d EXCEPT !.updated_at = t]>>

\* C8: every writeStore call leaves the file as it is and exactly one
\* timeout scheduled, however many calls came before it; when the timeout
\* fires the file receives the data of the last call, and no timeout or
\* cached data is left to cause a second write.
C8_BurstIsOneFlush ==
    [][/\ burst'["w"] > burst["w"] =>
             /\ file' = file
             /\ cachedStore'["w"] # <<>>
             /\ timers'["w"] = 1
       /\ (last'.op = "flushWrite" /\ burst["w"] >= 1) =>
             /\ file' = Stamped(cachedStore["w"][1], now)
             /\ cachedStore'["w"] = <<>>
             /\ timers'["w"] = 0]_vars

C8_Witness ==
    /\ last.op = "flushWrite"
    /\ last.burst >= 2
    /\ file # <<>>
    /\ file[1].sessions # <<>>

\* C9: when flushPendingWrites returns, the data of the most recent
\* writeStore is in the file, nothing is cached and no timeout is left; and
\* when handleHookEvent returns, the session it stored is in the file and
\* the hook process has nothing cached and no timeout left.
C9_ExplicitFlushIsDurable ==
    [][/\ last'.op = "flushPendingWrites" =>
             /\ cachedStore["w"] # <<>> => file' = Stamped(cachedStore["w"][1], now)
             /\ burst["w"] >= 1 => cachedStore["w"] # <<>>
             /\ cachedStore'["w"] = <<>>
             /\ ~writeTimer'["w"]
             /\ timers'["w"] = 0
       /\ last'.op = "handleHookEvent" =>
             /\ file' # <<>>
             /\ SameRecord(file'[1].sessions, last'.event)
             /\ cachedStore'["h1"] = <<>>
             /\ ~writeTimer'["h1"]
             /\ timers'["h1"] = 0]_vars

C9_Witness ==
    /\ last.op = "flushPendingWrites"
    /\ last.burst >= 2
    /\ file # <<>>
    /\ file[1].sessions # <<>>

(***************************************************************************)
(* Properties of concurrent hook processes (specification SpecHooks)       *)
(***************************************************************************)
\* C10: when two hook processes have handled events for sessions with
\* different keys on different TTYs and both have finished, the file holds
\* both sessions' records.
C10_BothUpdatesInFile ==
    (/\ \A p \in HookProcs : pc[p] = "exited"
     /\ ev["h1"][1].tty # ev["h2"][1].tty
     /\ getSessionKey(ev["h1"][1].session_id, ev["h1"][1].tty)
           # getSessionKey(ev["h2"][1].session_id, ev["h2"][1].tty)) =>
        \A p \in HookProcs :
           /\ file # <<>>
           /\ SameRecord(file[1].sessions, ev[p][1])

(***************************************************************************)
(* Properties of readers of the file (specification SpecTorn)              *)
(***************************************************************************)
\* C11: a process that reads the store while another process is flushing
\* gets the complete content of the file: whenever readStore runs in a
\* process without a cache and the file exists, the file holds a complete
\* JSON text and readStore returns exactly that content (never the empty
\* aggregate of a failed parse).
C11_ReadIsNeverTorn ==
    [][(last'.op = "readStore" /\ file' # <<>>) =>
          /\ parses(file'[1])
          /\ last'.result = file'[1]]_vars

(***************************************************************************)
(* Properties of getSessions (specification Spec)                          *)
(***************************************************************************)
\* the session map in a file f
FileSessions(f) == IF f = <<>> THEN <<>> ELSE f[1].sessions

\* the TTY liveness check answers false for this record
DeadTty(session, alive) == session.tty # Undefined /\ session.tty \notin alive

\* C12: getSessions returns no session whose TTY liveness check is false and
\* once its write is flushed the file holds none either; every session
\* without a TTY that was in the store is still in the file, unchanged, and
\* is in the result, whatever the liveness oracle answers.
C12_DeadTtysPruned ==
    [][last'.op = "getSessions" =>
          LET before == FileSessions(file)
              after == FileSessions(file')
              result == last'.result
              alive == last'.alive
          IN /\ \A i \in 1..Len(result) : ~DeadTty(result[i], alive)
             /\ \A i \in 1..Len(after) : ~DeadTty(after[i].val, alive)
             /\ \A i \in 1..Len(before) :
                   before[i].val.tty = Undefined =>
                      /\ Has(after, before[i].key)
                      /\ Get(after, before[i].key) = before[i].val
                      /\ \E j \in 1..Len(result) : result[j] = before[i].val]_vars

\* getSessions has removed a session on a dead TTY and kept one without a
\* TTY while the oracle reported no TTY alive
C12_Witness ==
    /\ last.op = "getSessions"
    /\ last.alive = {}
    /\ last.removed # {}
    /\ \E i \in 1..Len(last.result) : last.result[i].tty = Undefined
    /\ Len(FileSessions(file)) = 1

(***************************************************************************)
(* Properties under storage failures (specification SpecFaults)            *)
(***************************************************************************)
\* C13: readStore returns the cached data whenever a write is pending and
\* otherwise the content of the store file; when the file is missing,
\* unreadable or unparsable, or the store directory cannot be created, it
\* returns the empty aggregate; it never raises an error.
C13_ReadNeverFails ==
    [][last'.op = "readStore" =>
          /\ ~last'.threw
          /\ last'.result =
                <<IF cachedStore["w"] # <<>> THEN cachedStore["w"][1]
                  ELSE IF \/ file = <<>>
                          \/ last'.io \in {"mkdir", "read"}
                          \/ file[1] = Torn
                       THEN getEmptyStoreData(now)
                       ELSE file[1]>>]_vars

\* C14: when the durable write of a flush fails (flushPendingWrites or the
\* timeout's flushWrite, with a write pending), the file keeps its previous
\* content, the cache is dropped, and no timer is left to retry.
C14_FailedFlushKeepsFile ==
    [][(/\ last'.op \in {"flushPendingWrites", "flushWrite"}
        /\ last'.pending
        /\ cachedStore["w"] # <<>>
        /\ last'.io \in {"mkdir", "open", "write"}) =>
          /\ file' = file
          /\ cachedStore'["w"] = <<>>
          /\ ~writeTimer'["w"]
          /\ timers'["w"] = 0]_vars

(***************************************************************************)
(* Properties of the hook command (specification SpecHookInput)            *)
(***************************************************************************)
\* the invocation is one the claim lists as invalid
InvalidInvocation(l) ==
    \/ l.eventName \notin {"PreToolUse", "PostToolUse", "Notification", "Stop", "UserPromptSubmit"}
    \/ l.stdin.kind = "malformed"
    \/ /\ l.stdin.kind = "object"
       /\ \/ l.stdin.session_id.t # "string"
          \/ l.stdin.session_id = JString("")
          \/ l.stdin.cwd.t \notin {"undefined", "string"}
          \/ l.stdin.notification_type.t \notin {"undefined", "string"}

\* C15: a hook command with an event name outside the five, malformed JSON,
\* a missing, empty or non-string session_id, or a non-string cwd or
\* notification_type exits with a non-zero status and leaves the file and
\* the cache exactly as they were.
C15_InvalidInputChangesNothing ==
    [][(last'.op = "hook" /\ InvalidInvocation(last')) =>
          /\ last'.exit # 0
          /\ file' = file
          /\ cachedStore' = cachedStore
          /\ writeTimer' = writeTimer
          /\ timers' = timers]_vars

\* a hook with an empty session_id was rejected while the store held a session
C15_Witness ==
    /\ last.op = "hook"
    /\ last.exit = 1
    /\ last.eventName = "Stop"
    /\ last.stdin.kind = "object"
    /\ last.stdin.session_id = JString("")
    /\ Len(FileSessions(file)) >= 1

(***************************************************************************)
(* Properties of the timestamps (specification SpecClock)                  *)
(***************************************************************************)
\* C16: when updateSession is applied to the same hook event twice in
\* succession, the record at the event's key has after the second
\* application the status and created_at it had after the first, and its
\* updated_at is the time of the second application.
C16_ReplayKeepsStatus ==
    [][(/\ last.op = "updateSession"
        /\ last'.op = "updateSession"
        /\ last'.event = last.event) =>
          LET key == getSessionKey(last.event.session_id, last.event.tty)
              first == Get(FileSessions(file), key)
              second == Get(FileSessions(file'), key)
          IN /\ second.status = first.status
             /\ second.created_at = first.created_at
             /\ second.updated_at = now']_vars

\* a permission prompt was replayed one clock reading after it created the record
C16_Witness ==
    /\ last.op = "updateSession"
    /\ last.replay
    /\ last.event.hook_event_name = "Notification"
    /\ \E i \in 1..Len(FileSessions(file)) :
          LET session == FileSessions(file)[i].val
          IN /\ FileSessions(file)[i].key = getSessionKey(last.event.session_id, last.event.tty)
             /\ session.status = "waiting_input"
             /\ session.created_at = 0
             /\ session.updated_at = 1

\* C17: when syncProcessSessions is given a batch that contains a pid on a
\* TTY whose record codex-<pid> is already in the store from an earlier
\* scan, the record has afterwards the created_at it had before.
C17_CreatedAtSurvivesScans ==
    [][last'.op = "syncProcessSessions" =>
          \A i \in 1..Len(last'.detected) :
             LET key == getSessionKey(codexSessionId(last'.detected[i].pid),
                                      last'.detected[i].tty)
                 before == FileSessions(file)
                 after == FileSessions(file')
             IN (/\ Has(before, key)
                 /\ Get(before, key).source = "codex"
                 /\ Has(after, key)) =>
                   Get(after, key).created_at = Get(before, key).created_at]_vars

\* C18: every record has created_at <= updated_at, and a session's record
\* that is at its key before and after a call has the same created_at.
C18_CreatedAtIsImmutable ==
    [][LET before == FileSessions(file)
           after == FileSessions(file')
       IN /\ \A i \in 1..Len(after) : after[i].val.created_at <= after[i].val.updated_at
          /\ \A i \in 1..Len(after) :
                (/\ Has(before, after[i].key)
                 /\ Get(before, after[i].key).session_id = after[i].val.session_id) =>
                   after[i].val.created_at = Get(before, after[i].key).created_at]_vars

C20_PendingWriteReachesFile ==
    /\ [][(last'.op = "flushWrite" /\ cachedStore["w"] # <<>>) =>
             /\ file' = Stamped(cachedStore["w"][1], now)
             /\ cachedStore'["w"] = <<>>
             /\ ~writeTimer'["w"]]_vars
    /\ (cachedStore["w"] # <<>>) ~>
          (/\ cachedStore["w"] = <<>>
           /\ last.op \in {"flushWrite", "flushPendingWrites", "resetStoreCache"})

\* the timeout has fired after a single writeStore, one clock reading after
\* the store was created
C20_Witness ==
    /\ last.op = "flushWrite"
    /\ last.burst = 1
    /\ cachedStore["w"] = <<>>
    /\ timers["w"] = 0
    /\ file # <<>>
    /\ file[1].updated_at = MaxClock
    /\ Len(file[1].sessions) = MaxSessions

\* C21: resetStoreCache leaves the file as it is, leaves nothing cached and
\* no timeout scheduled, so that no later timeout can write the discarded
\* data, and the readStore that follows returns what the file holds.
C21_ResetDiscardsWithoutWriting ==
    [][last'.op = "resetStoreCache" =>
          /\ file' = file
          /\ cachedStore'["w"] = <<>>
          /\ ~writeTimer'["w"]
          /\ timers'["w"] = 0
          /\ \A t \in 0..MaxClock :
                readStore([file |-> file', cachedStore |-> cachedStore'["w"],
                           writeTimer |-> writeTimer'["w"], timers |-> timers'["w"],
                           io |-> "ok"], t)
                  = IF file = <<>> THEN getEmptyStoreData(t) ELSE file[1]]_vars

\* resetStoreCache has discarded the data of two writeStore calls, which
\* differed from the file's
C21_Witness ==
    /\ last.op = "resetStoreCache"
    /\ last.burst >= 2
    /\ cachedStore["w"] = <<>>
    /\ timers["w"] = 0
    /\ file # <<>>
    /\ file[1].sessions = <<>>

\* C26: clearSessions leaves the file as it is and leaves the empty aggregate
\* as the only cached data, with one timeout scheduled, whatever was cached
\* or pending before; steps of the clock and of hook processes leave that
\* cache and timeout alone; and a flush of a cache that holds no session
\* leaves a file that holds no session.
C26_ClearLeavesNoSession ==
    [][/\ last'.op = "clearSessions" =>
             /\ file' = file
             /\ cachedStore'["w"] = <<getEmptyStoreData(now)>>
             /\ writeTimer'["w"]
             /\ timers'["w"] = 1
       /\ last'.op \in {"tick", "handleHookEvent"} =>
             /\ cachedStore'["w"] = cachedStore["w"]
             /\ timers'["w"] = timers["w"]
       /\ (/\ last'.op \in {"flushWrite", "flushPendingWrites"}
           /\ cachedStore["w"] # <<>>
           /\ cachedStore["w"][1].sessions = <<>>) =>
             /\ file' # <<>>
             /\ file'[1].sessions = <<>>
             /\ cachedStore'["w"] = <<>>
             /\ timers'["w"] = 0]_vars

\* the timeout has fired after clearSessions, which was called while the
\* data of an earlier writeStore was pending
C26_Witness ==
    /\ last.op = "flushWrite"
    /\ last.after = "clearSessions"
    /\ last.burst >= 2
    /\ file # <<>>
    /\ file[1].sessions = <<>>
    /\ cachedStore["w"] = <<>>

\* C29: when a hook process has just written its session to the file and the
\* monitor then calls updateSession or syncProcessSessions, the map the call
\* hands to writeStore was computed from the file as it is now: it holds the
\* hook's session unless the call claims that session's TTY.
C29_SupersessionOnFreshRead ==
    [][(/\ last.op = "handleHookEvent"
        /\ last'.op \in {"updateSession", "syncProcessSessions"}) =>
          LET claimed == IF last'.op = "updateSession" THEN {last'.event.tty}
                         ELSE {last'.detected[i].tty : i \in 1..Len(last'.detected)}
          IN \/ last.event.tty \in claimed
             \/ SameRecord(cachedStore'["w"][1].sessions, last.event)]_vars

\* C30: when a hook process has written its session to the file while the
\* monitor had a write pending, the file still holds that session after the
\* monitor's flush.
C30_HookUpdateSurvivesFlush ==
    [][(/\ last.op = "handleHookEvent"
        /\ cachedStore["w"] # <<>>
        /\ last'.op \in {"flushWrite", "flushPendingWrites"}) =>
          SameRecord(FileSessions(file'), last.event)]_vars

(***************************************************************************)
(* Properties of the snapshot (specification SpecSort)                     *)
(***************************************************************************)
\* C24: getSessions returns exactly the sessions of the store whose TTY is
\* alive, in ascending order of created_at, and two of them with the same
\* created_at are in the order in which the store iterates them.
C24_SortedByCreatedAt ==
    [][last'.op = "getSessions" =>
          LET survivors == Values(pruneDeadTtys(FileSessions(file), last'.alive))
              result == last'.result
              n == Len(survivors)
          IN /\ Len(result) = n
             /\ \A i, j \in 1..n :
                   i < j => result[i].created_at <= result[j].created_at
             /\ \E pos \in [1..n -> 1..n] :
                   /\ \A i, j \in 1..n : i # j => pos[i] # pos[j]
                   /\ \A i \in 1..n : result[pos[i]] = survivors[i]
                   /\ \A i, j \in 1..n :
                         (i < j /\ survivors[i].created_at = survivors[j].created_at) =>
                            pos[i] < pos[j]]_vars

\* getSessions has returned two sessions in the reverse of the store's order
C24_Witness ==
    /\ last.op = "getSessions"
    /\ Len(last.result) = 2
    /\ last.result[1].created_at < last.result[2].created_at
    /\ Values(FileSessions(file)) = <<last.result[2], last.result[1]>>

(***************************************************************************)
(* Properties of inactive sessions (specification SpecClock)               *)
(***************************************************************************)
\* C27: when getSessions has returned, neither its result nor the file holds
\* a session whose last update is InactivityTimeout or more before the
\* clock's latest reading, whether its TTY is alive or not.
C27_InactiveSessionsRemoved ==
    last.op = "getSessions" =>
       /\ \A i \in 1..Len(last.result) :
             now - last.result[i].updated_at < InactivityTimeout
       /\ \A i \in 1..Len(FileSessions(file)) :
             now - FileSessions(file)[i].val.updated_at < InactivityTimeout

(***************************************************************************)
(* Properties of the array getSessions returns (specification SpecAlias)   *)
(***************************************************************************)
\* C22: an assignment to a session object of the array getSessions returned
\* changes neither the cache nor the file, whether a write was pending when
\* getSessions ran or not.
C22_ResultIsFreshCopy ==
    [][last'.op = "mutate" => cachedStore' = cachedStore /\ file' = file]_vars

NoTabName(sessions) == \A i \in 1..Len(sessions) : "tabName" \notin DOMAIN sessions[i].val

\* C23: no session record of the cache or of the file has a tabName field;
\* and when getSessions has returned, the store's record behind each element
\* of the result has the element's fields and values, tabName apart.
C23_TabNameNeverStored ==
    /\ NoTabName(FileSessions(file))
    /\ NoTabName(Store("w").sessions)
    /\ last.op = "getSessions" =>
          \A i \in 1..Len(last.held) :
             /\ Has(Store("w").sessions, last.held[i].key)
             /\ \A f \in DOMAIN Get(Store("w").sessions, last.held[i].key) :
                   last.held[i].session[f] = Get(Store("w").sessions, last.held[i].key)[f]

\* getSessions has returned a session with a tab name while the store's
\* object it copied is in the cache of a pending write
C23_Witness ==
    /\ last.op = "getSessions"
    /\ cachedStore["w"] # <<>>
    /\ \E i \in 1..Len(last.held) :
          /\ "tabName" \in DOMAIN last.held[i].session
          /\ Has(cachedStore["w"][1].sessions, last.held[i].key)

(***************************************************************************)
(* Properties of the process scan (specification SpecScan)                 *)
(***************************************************************************)
\* the scan could not see the process of this ps line: ps failed, or lsof
\* gave no cwd for it
Affected(ps, lsof, row) == ps.failed \/ lsof[row.pid] = Undefined

\* the ps listing there would be if the affected processes had exited
AsIfExited(ps, lsof) ==
    [failed |-> FALSE,
     rows |-> IF ps.failed THEN <<>>
              ELSE Filter(ps.rows, {i \in 1..Len(ps.rows) : lsof[ps.rows[i].pid] # Undefined})]

\* some process was hidden from this scan by a failure
ScanFailed(l) ==
    l.ps.failed \/ \E i \in 1..Len(l.ps.rows) : l.lsof[l.ps.rows[i].pid] = Undefined

Unauthorized(c) == clients[c].readyState # "NONE" /\ clients[c].token # ValidToken

\* C28: the socket of a client that connected without the valid token is
\* closing or closed from the connection on, has no 'message' listener, was
\* sent nothing and had no command handled; and a message of such a client
\* leaves the store as it is.
C28_UnauthorizedClientGetsNothing ==
    /\ [](\A c \in Conns :
            Unauthorized(c) =>
               /\ clients[c].readyState \in {"CLOSING", "CLOSED"}
               /\ ~clients[c].onMessage
               /\ clients[c].received = 0
               /\ clients[c].commands = 0)
    /\ [][\A c \in Conns :
            (last'.op = "message" /\ last'.client = c /\ Unauthorized(c)) =>
               /\ file' = file
               /\ cachedStore' = cachedStore
               /\ clients' = clients]_vars

\* the sessions were broadcast while the socket of a client without the
\* token was still closing, and a client with the token got them
C28_Witness ==
    /\ last.op = "broadcast"
    /\ FileSessions(file) # <<>>
    /\ \E c, d \in Conns :
          /\ Unauthorized(c)
          /\ clients[c].readyState = "CLOSING"
          /\ clients[c].received = 0
          /\ clients[d].token = ValidToken
          /\ clients[d].received = MaxMessages

(***************************************************************************)
(* Properties of scan batches with a shared TTY (specification             *)
(* SpecCodexHook)                                                          *)
(***************************************************************************)
\* the positions of a batch whose process is on TTY T
BatchOnTty(detected, T) == {n \in 1..Len(detected) : detected[n].tty = T}

\* the batch lists two or more processes on TTY T
SharedTty(detected, T) ==
    Cardinality({detected[n].pid : n \in BatchOnTty(detected, T)}) >= 2

\* the position of the process listed last on TTY T
LastOnTty(detected, T) ==
    CHOOSE n \in BatchOnTty(detected, T) : \A k \in BatchOnTty(detected, T) : k <= n

\* C31: after syncProcessSessions of a batch with two or more processes on
\* TTY T, the store holds exactly one codex record with tty T, that of the
\* process listed last on T, and no record at the keys of the other
\* processes of the batch on T.
C31_LastOnTtyWins ==
    last.op = "syncProcessSessions" =>
       \A T \in Ttys :
          SharedTty(last.detected, T) =>
             LET winner == last.detected[LastOnTty(last.detected, T)]
                 onT == {i \in CodexRecords(Sessions) : Sessions[i].val.tty = T}
             IN /\ Cardinality(onT) = 1
                /\ \A i \in onT :
                      /\ Sessions[i].val.session_id = codexSessionId(winner.pid)
                      /\ Sessions[i].key = getSessionKey(codexSessionId(winner.pid), T)
                /\ \A n \in BatchOnTty(last.detected, T) :
                      last.detected[n].pid # winner.pid =>
                         ~Has(Sessions, getSessionKey(codexSessionId(last.detected[n].pid), T))

\* a scan listed pid 1 and then pid 2 on /dev/t1 while the store held the
\* record of pid 1: that record is gone and the record of pid 2 is there
C31_Witness ==
    /\ last.op = "syncProcessSessions"
    /\ Len(last.detected) = 2
    /\ last.detected[1].pid = 1 /\ last.detected[1].tty = "/dev/t1"
    /\ last.detected[2].pid = 2 /\ last.detected[2].tty = "/dev/t1"
    /\ getSessionKey(codexSessionId(1), "/dev/t1") \in last.removed
    /\ Has(Sessions, getSessionKey(codexSessionId(2), "/dev/t1"))

(***************************************************************************)
(* Properties of the record updateSession writes (specification Spec)      *)
(***************************************************************************)
\* the TTYs of the records of session id S
TtysOf(sessions, S) ==
    {sessions[i].val.tty : i \in {n \in 1..Len(sessions) : sessions[n].val.session_id = S}}
        \ {Undefined}

\* C32: when updateSession handles an event without a TTY for a session id
\* that has a record with a TTY, the record it writes carries that TTY.
C32_TtyIsInherited ==
    [][(/\ last'.op = "updateSession"
        /\ last'.event.tty = Undefined
        /\ TtysOf(Sessions, last'.event.session_id) # {}) =>
          LET key == getSessionKey(last'.event.session_id, last'.event.tty)
          IN /\ Has(Sessions', key)
             /\ Get(Sessions', key).tty \in TtysOf(Sessions, last'.event.session_id)]_vars

(***************************************************************************)
(* Properties of the watcher cycle (specification SpecWatcherFair)         *)
(***************************************************************************)
\* C33: a getSessions call schedules a write exactly when it pruned a
\* session, and then a single one, without touching the file; a call that
\* pruned nothing leaves cache, timeout and file as they are; a second call
\* with the same liveness answers changes nothing; and unless hook
\* processes keep writing the file, the watcher cycle comes to rest with no
\* change event queued and no timeout scheduled.
C33_WatcherCycleTerminates ==
    /\ [][last'.op = "getSessions" =>
             LET after == [file |-> file', cachedStore |-> cachedStore'["w"],
                           writeTimer |-> writeTimer'["w"], timers |-> timers'["w"],
                           io |-> "ok"]
             IN /\ last'.wrote <=> last'.pruned # {}
                /\ last'.wrote =>
                      /\ cachedStore'["w"] # <<>>
                      /\ timers'["w"] = 1
                      /\ writeTimer'["w"]
                /\ ~last'.wrote =>
                      /\ cachedStore' = cachedStore
                      /\ timers' = timers
                      /\ writeTimer' = writeTimer
                /\ file' = file
                /\ getSessions(after, last'.alive, now) = after]_vars
    /\ \/ <>[](~watch.pending /\ timers["w"] = 0)
       \/ []<><<WatcherHookWrites>>_vars

\* the change handler's getSessions pruned a session and the write it
\* scheduled has reached the file, which queued the next change event
C33_Witness ==
    /\ last.op = "flushWrite"
    /\ watch.pending
    /\ watch.alive # Ttys
    /\ file # <<>>
    /\ Len(file[1].sessions) = 1
    /\ \A i \in 1..Len(file[1].sessions) : isTtyAlive(file[1].sessions[i].val.tty, watch.alive)

(***************************************************************************)
(* The debounce timer and the cache (specification SpecDebounce)           *)
(***************************************************************************)
\* C34: in every reachable state of a process the writeTimer handle is set,
\* and one timeout is scheduled, exactly when the in-memory cache holds a
\* store; so flushPendingWrites, which acts only when the handle is set,
\* leaves the process with an empty cache and nothing scheduled.
C34_TimerIffCache ==
    /\ [](\A p \in Procs :
             /\ writeTimer[p] <=> cachedStore[p] # <<>>
             /\ timers[p] = IF cachedStore[p] # <<>> THEN 1 ELSE 0)
    /\ [][last'.op = "flushPendingWrites" =>
             /\ cachedStore'["w"] = <<>>
             /\ ~writeTimer'["w"]
             /\ timers'["w"] = 0]_vars

\* flushPendingWrites has just flushed a cache that several writeStore
\* calls had filled
C34_Witness ==
    /\ last.op = "flushPendingWrites"
    /\ last.burst >= 2
    /\ cachedStore["w"] = <<>>
    /\ file # <<>>

(***************************************************************************)
(* Keys and records (specifications Spec and SpecUpdate)                    *)
(***************************************************************************)
\* C35: in every reachable store each record is stored under the composite
\* key of its own fields: the key of every entry of sessions equals
\* getSessionKey(session_id, tty) of the record it holds.
C35_KeyOfOwnFields ==
    \A i \in 1..Len(Sessions) :
        Sessions[i].key = getSessionKey(Sessions[i].val.session_id, Sessions[i].val.tty)

\* C36: updateSession for session id S on TTY T changes only the record at
\* the composite key of (S, T) and deletes only records whose tty is T and
\* whose session id differs from S; every other record is left exactly as
\* it was, and no other key appears.
C36_UpdateSessionFrame ==
    [][last'.op = "updateSession" =>
         LET S == last'.event.session_id
             T == last'.event.tty
             key == getSessionKey(S, T)
         IN /\ \A k \in Keys(Sessions) \ {key} :
                  IF Has(Sessions', k)
                  THEN Get(Sessions', k) = Get(Sessions, k)
                  ELSE /\ T # Undefined
                       /\ Get(Sessions, k).tty = T
                       /\ Get(Sessions, k).session_id # S
            /\ Keys(Sessions') \ Keys(Sessions) \subseteq {key}
            /\ Has(Sessions', key)]_vars

\* updateSession has evicted the previous session of its TTY and the record
\* of another TTY is still in the store
C36_Witness ==
    /\ last.op = "updateSession"
    /\ last.event.tty # Undefined
    /\ last.removed # {}
    /\ \E i \in 1..Len(Sessions) :
          /\ Sessions[i].val.tty # last.event.tty
          /\ Sessions[i].key # getSessionKey(last.event.session_id, last.event.tty)

\* C37: when a session id of which the store holds no record claims a TTY
\* held by a stopped session, the status of the record written is the one
\* determineStatus gives without a current status (running for PreToolUse).
C37_SuccessorStartsFresh ==
    [][(/\ last'.op = "updateSession"
        /\ last'.event.tty # Undefined
        /\ \A i \in 1..Len(Sessions) :
              Sessions[i].val.session_id # last'.event.session_id
        /\ \E i \in 1..Len(Sessions) :
              /\ Sessions[i].val.tty = last'.event.tty
              /\ Sessions[i].val.status = "stopped") =>
          LET key == getSessionKey(last'.event.session_id, last'.event.tty)
          IN /\ Has(Sessions', key)
             /\ Get(Sessions', key).status = determineStatus(last'.event, Undefined)]_vars

\* C38: updateSession stores the transcript's last assistant message when
\* getLastAssistantMessage finds one; when the transcript path is empty, the
\* file is absent or unreadable, or it holds no assistant text, the record
\* at the event's key keeps the lastMessage it had before the call.
C38_LastMessageCarriedOver ==
    [][last'.op = "updateSession" =>
         LET key == getSessionKey(last'.event.session_id, last'.event.tty)
         IN /\ last'.reading.outcome = "found" <=> last'.message # Undefined
            /\ Has(Sessions', key)
            /\ last'.message # Undefined =>
                  Get(Sessions', key).lastMessage = last'.message
            /\ (last'.message = Undefined /\ Has(Sessions, key)) =>
                  Get(Sessions', key).lastMessage = Get(Sessions, key).lastMessage]_vars

(***************************************************************************)
(* useServer (specification SpecUseServer)                                 *)
(***************************************************************************)
\* the React state the hook returns
HookState == <<hook.url, hook.actualPort, hook.loading, hook.error>>

\* C39: in every interleaving of mount, port change, unmount and completion
\* of createMobileServer, a server whose effect has been cleaned up is
\* stopped from the moment createMobileServer has resolved, stop is called
\* once, a server of a mounted effect is running, and a completion that
\* comes after the cleanup of its effect makes no state update.
C39_StartedServerIsStopped ==
    /\ [](\A e \in Effects :
             /\ (hook.effects[e].phase = "resolved" /\ ~hook.effects[e].isMounted) =>
                   /\ hook.effects[e].server = "stopped"
                   /\ hook.effects[e].stops = 1
             /\ (hook.effects[e].phase = "resolved" /\ hook.effects[e].isMounted) =>
                   /\ hook.effects[e].server = "running"
                   /\ hook.effects[e].stops = 0
             /\ hook.effects[e].phase # "resolved" => hook.effects[e].server = "none")
    /\ [][(/\ last'.op \in {"resolved", "rejected"}
            /\ ~hook.effects[last'.e].isMounted) =>
              HookState' = HookState]_vars

\* the component unmounted while createMobileServer was pending; it has
\* resolved since and its server is stopped
C39_Witness ==
    /\ last.op = "resolved"
    /\ hook.unmounted
    /\ hook.effects[last.e].server = "stopped"
    /\ hook.n = last.e

====
